---- MODULE Spec2Model ----
(***************************************************************************)
(* Model of the two-stage audio pipeline of websocket_server.py: startup   *)
(* and shutdown (initialize_queue_system, cleanup_handler), the admission  *)
(* handlers (process_audio, convert_new), the status handler               *)
(* (convert_status), the two worker loops (process_preprocessing_queue,    *)
(* process_rvc_queue) and the two stage coroutines they await.             *)
(*                                                                         *)
(* A request is identified by the ordinal of the handler invocation that   *)
(* created it; its request id is the pair <<prefix, ordinal>>.  Byte and   *)
(* text values are sequences of strings that record how they were          *)
(* produced (<<"rvc","tts","tr","asr","audio","1">>), so that a result     *)
(* can be traced back to the request and to the collaborators it went      *)
(* through.                                                                *)
(***************************************************************************)
EXTENDS Integers, Sequences, FiniteSets, TLC

\* ---------------------------------------------------------------- bounds
\* Number of handler invocations (process_audio / convert_new) explored.
MaxRequests == 2
\* Queue(maxsize=50) and Queue(maxsize=20), scaled down so that both
\* queues fill up within MaxRequests submissions.
MainQueueMaxSize == 1
RvcQueueMaxSize == 1
\* Number of 'completed' answers of convert_status counted per request id.
MaxRetrievals == 2
\* Audio files in the input folder of the batch client, and the largest
\* max_concurrent passed to process_folder (fewer permits than files, so
\* that tasks wait for a permit).
MaxFiles == 3
MaxConcurrent == 2

\* ------------------------------------------------------ program constants
max_concurrent_requests == 1
max_concurrent_preprocessing == 5

Reqs == 1..MaxRequests

VARIABLES
    audio_processing_queue,   \* Seq(Reqs): the admission queue
    rvc_queue,                \* Seq(Reqs): the bottleneck queue
    preprocessing_semaphore,  \* value of the preprocessing semaphore
    processing_semaphore,     \* value of the RVC semaphore
    recognizer,               \* the global recognizer: "None" or "loaded"
    translator,               \* the global translator: "None" or "loaded"
    prePc,                    \* position of process_preprocessing_queue
    rvcPc,                    \* position of process_rvc_queue
    nextReq,                  \* number of handler invocations so far
    handler,                  \* [Reqs -> position/outcome of the admission handler]
    prefix,                   \* [Reqs -> "", "req_", "conv_"]
    position,                 \* [Reqs -> queue_size reported by convert_new]
    future,                   \* [Reqs -> [state, result]]
    request_data,             \* [Reqs -> fields of the request dict]
    stage,                    \* [Reqs -> position inside the stage coroutines]
    outcome,                  \* [Reqs -> what each collaborator call did] (history)
    results_cache,            \* convert_status.results_cache: set of results
    overwrite,                \* requests whose resolved future got set_result again (history)
    startup,                  \* how often each part of the queue system was created
    cleaned,                  \* cleanup_handler has returned
    retrievals,               \* [Reqs -> number of 'completed' answers of convert_status] (history)
    tr_call,                  \* the arguments of one call of translate_text
    tr_sent,                  \* what that call passed on to Translator.translate
    tts,                      \* one call of SoundOfTextTTS.synthesize_to_mp3_url
    file_pc,                  \* AudioProcessor.process_folder: [file -> position of its task]
    semaphore,                \* value of process_folder's semaphore
    rvc_semaphore,            \* value of AudioProcessor.rvc_semaphore
    batch                     \* process_folder: max_concurrent and the returned counts

queueVars  == <<audio_processing_queue, rvc_queue>>
semVars    == <<preprocessing_semaphore, processing_semaphore>>
workerVars == <<prePc, rvcPc>>
engineVars == <<recognizer, translator>>
handlerVars == <<nextReq, handler, prefix, position>>
reqVars    == <<future, request_data, stage, outcome, overwrite>>
lifeVars   == <<startup, cleaned>>
histVars   == <<retrievals>>
dirVars    == <<tr_call, tr_sent>>
ttsVars    == <<tts>>
batchVars  == <<file_pc, semaphore, rvc_semaphore, batch>>
auxVars    == <<dirVars, ttsVars, batchVars>>
vars == <<queueVars, semVars, workerVars, engineVars, handlerVars, reqVars,
          results_cache, lifeVars, histVars, auxVars>>

\* ------------------------------------------------------------- data terms
Empty == <<>>
NoSpeechText == <<"No speech detected">>

\* request_id = f"{prefix}{int(time.time() * 1000)}_{id(request)}"
RequestId(p, r) == <<p, ToString(r)>>

\* the decoded audio payload of invocation r
AudioBlob(r) == <<"audio", ToString(r)>>

\* base64.b64encode(x).decode('utf-8')
b64encode(x) == <<"b64">> \o x

\* A result dict.  error = Empty stands for "no 'error' key"; status = 0 for
\* "no 'status' key" (the success dict of process_rvc_stage has neither).
ErrorResult(msg, code) ==
    [error |-> msg, status |-> code, request_id |-> Empty,
     original_audio_blob |-> Empty, translated_audio_blob |-> Empty,
     original_text |-> Empty, translated_text |-> Empty,
     detected_language |-> Empty]

NoResult == ErrorResult(Empty, 0)

NoSpeechResult == ErrorResult(<<"No speech detected in audio">>, 400)

PreprocessingErrorResult(e) == ErrorResult(<<"Preprocessing Error">> \o e, 500)

RvcErrorResult(e) == ErrorResult(<<"RVC Processing Error">> \o e, 500)

NoData ==
    [audio_blob |-> Empty, original_text |-> Empty, translated_text |-> Empty,
     detected_lang |-> Empty, translated_audio_blob |-> Empty]

NoOutcome == [asr |-> "", translate |-> "", tts |-> "", rvc |-> ""]

\* startup before initialize_queue_system ran: nothing was created
NotStarted == [queues |-> 0, semaphores |-> 0, pre_workers |-> 0, rvc_workers |-> 0]

\* ----------------------------------------------------------- collaborators
\* What a collaborator call can do is drawn from these sets ("uninit": the
\* global engine is None and loading it fails).
AsrOutcomes == {"text", "empty", "error", "uninit"}
TranslateOutcomes == {"ok", "empty", "error", "uninit"}
TtsOutcomes == {"ok", "error"}
RvcOutcomes == {"ok", "non200", "error"}

\* What the calling stage can tell of a call, recorded in outcome: an
\* exception of the recognizer is caught inside recognize_from_bytes and
\* looks like an empty transcript; an exception of the translation engine
\* is caught inside Translator.translate and looks like an empty
\* translation; a non-200 response and an exception of the conversion
\* service are both caught inside apply_rvc_conversion.
AsrReturn(o) == IF o = "error" THEN "empty" ELSE o

TranslateReturn(o) == IF o = "error" THEN "empty" ELSE o

RvcReturn(o) == IF o = "ok" THEN "ok" ELSE "failed"

\* initialize_recognizer / initialize_translator: a global that is None is
\* loaded by the call that needs it, unless loading fails (o = "uninit");
\* a loaded global stays loaded.
Loaded(engine, o) == IF o = "uninit" THEN engine ELSE "loaded"

\* SpeechRecognizer.recognize_from_bytes: the transcript and the detected
\* language; an exception of the engine is caught and becomes ("", "en").
recognize_from_bytes(audio, o) ==
    IF o = "text" THEN <<(<<"asr">> \o audio), <<"en">>>>
    ELSE <<Empty, <<"en">>>>

\* extract_text_from_original_audio: o = "uninit" is a recognizer that is
\* None and cannot be initialized.
extract_text_from_original_audio(audio, o) ==
    IF o = "uninit"
    THEN <<(<<"Speech recognizer not initialized">>), <<"unknown">>>>
    ELSE LET res == recognize_from_bytes(audio, o)
         IN  <<(IF res[1] # Empty THEN res[1] ELSE NoSpeechText), res[2]>>

\* Translator.translate: the engine's text, "" when the engine yields
\* nothing, and "" again when it raises (the exception is caught there).
Translator_translate(text, o) ==
    IF text = Empty THEN Empty
    ELSE IF o = "ok" THEN <<"tr">> \o text
    ELSE Empty

\* translate_text, the coroutine the pipeline calls (the later definition
\* of that name): o = "uninit" is a translator that is None and cannot be
\* initialized.
translate_text(text, o) ==
    IF o = "uninit" THEN <<"Translator not initialized">>
    ELSE LET translated == Translator_translate(text, o)
         IN  IF translated # Empty THEN translated ELSE text

\* synthesize_soundoftext swallowing its error and returning no bytes
synthesize_soundoftext_swallow(text, o) ==
    IF o = "ok" THEN [raised |-> FALSE, value |-> <<"tts">> \o text]
    ELSE [raised |-> FALSE, value |-> Empty]

\* synthesize_soundoftext: the MP3 bytes, or a raised RuntimeError.
synthesize_soundoftext(text, o) ==
    IF o = "ok" THEN [raised |-> FALSE, value |-> <<"tts">> \o text]
    ELSE [raised |-> TRUE, value |-> <<"RuntimeError">>]

\* apply_rvc_conversion without its fallback: nothing comes back on failure
apply_rvc_conversion_no_fallback(audio_blob, o) ==
    IF o = "ok" THEN <<"rvc">> \o audio_blob ELSE Empty

\* apply_rvc_conversion: the converted bytes on a 200 response, the input
\* bytes on any other response and on an exception.
apply_rvc_conversion(audio_blob, o) ==
    IF o = "ok" THEN <<"rvc">> \o audio_blob ELSE audio_blob

\* the success dict built from the fields of the request submitted last
RvcResultOfLatest(r) ==
    [error |-> Empty, status |-> 0,
     request_id |-> RequestId(prefix[r], r),
     original_audio_blob |-> b64encode(request_data[nextReq].audio_blob),
     translated_audio_blob |-> Empty,
     original_text |-> request_data[nextReq].original_text,
     translated_text |-> request_data[nextReq].translated_text,
     detected_language |-> request_data[nextReq].detected_lang]

\* The success dict of process_rvc_stage (the two timings are left out).
RvcResult(r) ==
    [error |-> Empty, status |-> 0,
     request_id |-> RequestId(prefix[r], r),
     original_audio_blob |-> b64encode(request_data[r].audio_blob),
     translated_audio_blob |-> Empty,
     original_text |-> request_data[r].original_text,
     translated_text |-> request_data[r].translated_text,
     detected_language |-> request_data[r].detected_lang]

\* ------------------------------------------------------------ primitives
\* Queue.full() off by one: "more than maxsize" instead of "at least".
FullOffByOne(q, maxsize) == Len(q) > maxsize

\* asyncio.Queue.full()
Full(q, maxsize) == Len(q) >= maxsize

\* the handlers without their capacity check
AdmissionQueueFullUnchecked == FALSE

\* a capacity check that counts the requests inside a stage as well
AdmissionQueueFullInFlight ==
    Len(audio_processing_queue) + Cardinality({r \in Reqs : stage[r] # "idle"})
        >= MainQueueMaxSize

\* the capacity check of process_audio and convert_new
AdmissionQueueFull == Full(audio_processing_queue, MainQueueMaxSize)

\* the test without the comparison with the "No speech detected" marker
IsNoSpeechEmptyOnly(text) == text = Empty

\* the test of process_preprocessing_stage on the ASR result
IsNoSpeech(text) == text = Empty \/ text = NoSpeechText

\* the test written with the prefix of the other handler
IsConvertRequestWrongPrefix(r) == prefix[r] = "req_"

\* request_id.startswith('conv_')
IsConvertRequest(r) == prefix[r] = "conv_"

\* ------------------------------------------------------------------ Init
\* The state of the module after import: the queues, the semaphores and the
\* worker tasks are None until initialize_queue_system creates them
\* (startup = NotStarted says so; nothing reads the four globals before,
\* and they are written here with the values the allocation gives them),
\* and the recognizer and the translator are loaded by the first call that
\* needs them.
InitQueueSystem ==
    /\ audio_processing_queue = <<>>
    /\ rvc_queue = <<>>
    /\ preprocessing_semaphore = max_concurrent_preprocessing
    /\ processing_semaphore = max_concurrent_requests
    /\ recognizer = "None"
    /\ translator = "None"
    /\ prePc = "none"
    /\ rvcPc = "none"
    /\ nextReq = 0
    /\ handler = [r \in Reqs |-> "none"]
    /\ prefix = [r \in Reqs |-> ""]
    /\ position = [r \in Reqs |-> 0]
    /\ future = [r \in Reqs |-> [state |-> "none", result |-> NoResult]]
    /\ request_data = [r \in Reqs |-> NoData]
    /\ stage = [r \in Reqs |-> "idle"]
    /\ outcome = [r \in Reqs |-> NoOutcome]
    /\ results_cache = {}
    /\ overwrite = {}
    /\ startup = NotStarted
    /\ cleaned = FALSE
    /\ retrievals = [r \in Reqs |-> 0]

\* no call of translate_text is followed on its own
NoCall == [called |-> FALSE]

\* no call of synthesize_to_mp3_url is followed on its own
NoTts ==
    [pc |-> "off", text |-> "", attempt |-> 0, polls |-> 0, result |-> "none",
     first_done |-> 0, first_error |-> 0]

\* no AudioProcessor exists in the server process
NoDirection == tr_call = NoCall /\ tr_sent = NoCall
NoSynthesis == tts = NoTts
NotCalled ==
    [pc |-> "off", max_concurrent |-> 0, files |-> 0,
     total |-> 0, successful |-> 0, failed |-> 0]

NoBatch ==
    /\ file_pc = <<>>
    /\ semaphore = 0
    /\ rvc_semaphore = 0
    /\ batch = NotCalled

Init ==
    /\ InitQueueSystem
    /\ NoDirection
    /\ NoSynthesis
    /\ NoBatch

\* --------------------------------------------------- startup and shutdown
\* the test of initialize_queue_system left out: every call allocates
QueueIsNoneUnchecked == TRUE

\* "audio_processing_queue is None": the global is assigned nowhere but in
\* initialize_queue_system, so it is None until the first allocation.
QueueIsNone == startup.queues = 0

\* initialize_queue_system, called by startup_handler and as the first
\* statement of process_audio, convert_new and the queue monitoring
\* handlers.  It has no suspension point.
initialize_queue_system ==
    /\ ~cleaned
    /\ IF QueueIsNone
       THEN /\ audio_processing_queue' = <<>>
            /\ rvc_queue' = <<>>
            /\ processing_semaphore' = max_concurrent_requests
            /\ preprocessing_semaphore' = max_concurrent_preprocessing
            /\ prePc' = "get"
            /\ rvcPc' = "get"
            /\ startup' = [queues |-> startup.queues + 1,
                           semaphores |-> startup.semaphores + 1,
                           pre_workers |-> startup.pre_workers + 1,
                           rvc_workers |-> startup.rvc_workers + 1]
       ELSE UNCHANGED <<queueVars, semVars, workerVars, startup>>
    /\ UNCHANGED <<engineVars, handlerVars, reqVars, results_cache, cleaned,
                   histVars, auxVars>>

\* hasattr(cleanup_handler, 'queue_task') / hasattr(cleanup_handler,
\* 'rvc_task'): no statement of the program sets an attribute on
\* cleanup_handler (the tasks are kept in the globals queue_processor_task
\* and rvc_processor_task).
HasTaskAttr(attr) == FALSE

\* task.cancel() followed by "await task": the worker ends
Cancel(pc) == "cancelled"

\* cleanup_handler (on_cleanup): runs once the server has stopped serving,
\* so no handler is left waiting on a future.
cleanup_handler ==
    /\ ~cleaned
    /\ startup.queues > 0
    /\ \A r \in Reqs : handler[r] = "awaiting" => future[r].state # "pending"
    /\ prePc' = IF HasTaskAttr("queue_task") THEN Cancel(prePc) ELSE prePc
    /\ rvcPc' = IF HasTaskAttr("rvc_task") THEN Cancel(rvcPc) ELSE rvcPc
    /\ cleaned' = TRUE
    /\ UNCHANGED <<queueVars, semVars, engineVars, handlerVars, reqVars,
                   results_cache, startup, histVars, auxVars>>

\* ------------------------------------------------------ admission handlers
\* the handlers testing the capacity before the payload
AdmitCapacityFirst(p, hasAudio) ==
    /\ startup.queues > 0
    /\ ~cleaned
    /\ nextReq < MaxRequests
    /\ LET r == nextReq + 1 IN
       /\ nextReq' = r
       /\ IF AdmissionQueueFull
          THEN /\ handler' = [handler EXCEPT ![r] = "rejected503"]
               /\ prefix' = [prefix EXCEPT ![r] = p]
               /\ UNCHANGED <<position, future, request_data,
                              audio_processing_queue>>
          ELSE IF ~hasAudio
          THEN /\ handler' = [handler EXCEPT ![r] = "rejected400"]
               /\ UNCHANGED <<prefix, position, future, request_data,
                              audio_processing_queue>>
          ELSE /\ prefix' = [prefix EXCEPT ![r] = p]
               /\ future' = [future EXCEPT ![r] =
                                [state |-> "pending", result |-> NoResult]]
               /\ request_data' = [request_data EXCEPT
                                      ![r].audio_blob = AudioBlob(r)]
               /\ IF Full(audio_processing_queue, MainQueueMaxSize)
                  THEN /\ handler' = [handler EXCEPT ![r] = "put_wait"]
                       /\ UNCHANGED <<position, audio_processing_queue>>
                  ELSE /\ audio_processing_queue' =
                              Append(audio_processing_queue, r)
                       /\ handler' = [handler EXCEPT ![r] =
                              IF p = "req_" THEN "awaiting" ELSE "queued"]
                       /\ position' = [position EXCEPT ![r] =
                              IF p = "req_" THEN 0
                              ELSE Len(audio_processing_queue) + 1]
    /\ UNCHANGED <<rvc_queue, semVars, workerVars, engineVars, stage, outcome,
                   overwrite, results_cache,
                   lifeVars, histVars, auxVars>>

\* The body of process_audio / convert_new from the parsed JSON on: there is
\* no suspension between the capacity check and the put, so it is one step.
\* p is the handler's id prefix, hasAudio whether data['audio_blob'] is set.
\* Queue.put suspends the caller when the queue is full ("put_wait").
Admit(p, hasAudio) ==
    /\ startup.queues > 0
    /\ ~cleaned
    /\ nextReq < MaxRequests
    /\ LET r == nextReq + 1 IN
       /\ nextReq' = r
       /\ IF ~hasAudio
          THEN /\ handler' = [handler EXCEPT ![r] = "rejected400"]
               /\ UNCHANGED <<prefix, position, future, request_data,
                              audio_processing_queue>>
          ELSE IF AdmissionQueueFull
          THEN /\ handler' = [handler EXCEPT ![r] = "rejected503"]
               /\ prefix' = [prefix EXCEPT ![r] = p]
               /\ UNCHANGED <<position, future, request_data,
                              audio_processing_queue>>
          ELSE /\ prefix' = [prefix EXCEPT ![r] = p]
               /\ future' = [future EXCEPT ![r] =
                                [state |-> "pending", result |-> NoResult]]
               /\ request_data' = [request_data EXCEPT
                                      ![r].audio_blob = AudioBlob(r)]
               /\ IF Full(audio_processing_queue, MainQueueMaxSize)
                  THEN /\ handler' = [handler EXCEPT ![r] = "put_wait"]
                       /\ UNCHANGED <<position, audio_processing_queue>>
                  ELSE /\ audio_processing_queue' =
                              Append(audio_processing_queue, r)
                       /\ handler' = [handler EXCEPT ![r] =
                              IF p = "req_" THEN "awaiting" ELSE "queued"]
                       /\ position' = [position EXCEPT ![r] =
                              IF p = "req_" THEN 0
                              ELSE Len(audio_processing_queue) + 1]
    /\ UNCHANGED <<rvc_queue, semVars, workerVars, engineVars, stage, outcome,
                   overwrite, results_cache,
                   lifeVars, histVars, auxVars>>

\* POST /process_audio: the caller then waits on the future.
process_audio(hasAudio) == Admit("req_", hasAudio)

\* POST /convert_new: the caller gets the ticket and polls convert_status.
convert_new(hasAudio) == Admit("conv_", hasAudio)

\* "~12 seconds per request (pipeline + RVC)"
SecondsPerRequest == 12

\* a ticket that counts the requests ahead of this one
QueueInfoZeroBased(queue_size) ==
    [position |-> queue_size - 1,
     estimated_wait_seconds |-> (queue_size - 1) * SecondsPerRequest,
     queue_size |-> queue_size]

\* the 'queue_info' of convert_new's answer, from qsize() after the put
QueueInfo(queue_size) ==
    [position |-> queue_size,
     estimated_wait_seconds |-> queue_size * SecondsPerRequest,
     queue_size |-> queue_size]

\* the answer convert_new gave to the accepted request r
ConvertNewReply(r) ==
    [status |-> "queued", request_id |-> RequestId(prefix[r], r),
     queue_info |-> QueueInfo(position[r])]

\* process_audio resumes from "await future" as soon as the future is done
\* and answers with its result: the HTTP status of the response for r
\* (0: not answered yet).  Nothing else reads the waiting handler, so its
\* resumption is not a step of its own.
ProcessAudioStatus(r) ==
    IF handler[r] = "rejected400" THEN 400
    ELSE IF handler[r] = "rejected503" THEN 503
    ELSE IF handler[r] = "awaiting" /\ future[r].state = "done"
    THEN (IF future[r].result.error # Empty
          THEN future[r].result.status ELSE 200)
    ELSE 0

\* a cancellation that also takes the request off the queue it waits in
CancelWaitRemoving(r) ==
    /\ ~cleaned
    /\ handler[r] = "awaiting"
    /\ future[r].state = "pending"
    /\ handler' = [handler EXCEPT ![r] = "cancelled"]
    /\ future' = [future EXCEPT ![r].state = "cancelled"]
    /\ audio_processing_queue' =
           SelectSeq(audio_processing_queue, LAMBDA x : x # r)
    /\ rvc_queue' = SelectSeq(rvc_queue, LAMBDA x : x # r)
    /\ UNCHANGED <<semVars, workerVars, engineVars, nextReq, prefix,
                   position, request_data, stage, outcome, overwrite,
                   results_cache,
                   lifeVars, histVars, auxVars>>

\* The task of a process_audio call is cancelled while it waits (the
\* client went away): the awaited future is cancelled with it.
CancelWait(r) ==
    /\ ~cleaned
    /\ handler[r] = "awaiting"
    /\ future[r].state = "pending"
    /\ handler' = [handler EXCEPT ![r] = "cancelled"]
    /\ future' = [future EXCEPT ![r].state = "cancelled"]
    /\ UNCHANGED <<queueVars, semVars, workerVars, engineVars, nextReq, prefix,
                   position, request_data, stage, outcome, overwrite,
                   results_cache,
                   lifeVars, histVars, auxVars>>

\* convert_status answering from the cache without deleting the entry
KeepResult(cache, id) == cache

\* a retrieval that clears the whole cache
DeleteResultAll(cache, id) == {}

\* "del convert_status.results_cache[request_id]"
DeleteResult(cache, id) == {c \in cache : c.request_id # id}

\* "request_id in convert_status.results_cache"
InCache(cache, id) == \E c \in cache : c.request_id = id

\* the 'status' of the answer convert_status gives for request r
ConvertStatusReply(r) ==
    IF InCache(results_cache, RequestId(prefix[r], r))
    THEN "completed" ELSE "processing"

\* the multiplier of 'estimated_remaining_seconds'
RemainingSecondsPerRequest == 12

\* "audio_processing_queue.qsize() if audio_processing_queue else 0"
CurrentQueueSize ==
    IF QueueIsNone THEN 0 ELSE Len(audio_processing_queue)

\* an answer that tells an id nobody was given from one in flight
ConvertStatusResponseNotFound(r) ==
    LET id == RequestId(prefix[r], r) IN
    IF InCache(results_cache, id)
    THEN [status |-> "completed", request_id |-> id,
          result |-> CHOOSE c \in results_cache : c.request_id = id]
    ELSE IF future[r].state = "none"
    THEN [status |-> "not_found", request_id |-> id,
          queue_info |-> [current_queue_size |-> 0,
                          estimated_remaining_seconds |-> 0]]
    ELSE [status |-> "processing", request_id |-> id,
          queue_info |->
              [current_queue_size |-> CurrentQueueSize,
               estimated_remaining_seconds |->
                   CurrentQueueSize * RemainingSecondsPerRequest]]

\* the body of the answer convert_status gives for the id of r; an r that
\* was never accepted stands for an id the server never queued
ConvertStatusResponse(r) ==
    LET id == RequestId(prefix[r], r) IN
    IF InCache(results_cache, id)
    THEN [status |-> "completed", request_id |-> id,
          result |-> CHOOSE c \in results_cache : c.request_id = id]
    ELSE [status |-> "processing", request_id |-> id,
          queue_info |->
              [current_queue_size |-> CurrentQueueSize,
               estimated_remaining_seconds |->
                   CurrentQueueSize * RemainingSecondsPerRequest]]

\* GET /convert_status?request_id=...: answers 'completed' with the cached
\* result of that id and deletes it, or 'processing' when there is none.
\* The id need not be one the server handed out.
convert_status(r) ==
    /\ ~cleaned
    /\ LET id == RequestId(prefix[r], r) IN
       IF ConvertStatusReply(r) = "completed"
       THEN /\ retrievals[r] < MaxRetrievals
            /\ retrievals' = [retrievals EXCEPT ![r] = @ + 1]
            /\ results_cache' = DeleteResult(results_cache, id)
       ELSE UNCHANGED <<retrievals, results_cache>>
    /\ UNCHANGED <<queueVars, semVars, workerVars, engineVars, handlerVars,
                   reqVars,
                   lifeVars, auxVars>>

\* ---------------------------------------------------------- worker loops
\* entering the stage without taking a permit
AcquireNoPermit(value) == value

\* "async with semaphore": __aenter__ takes a permit, __aexit__ gives it
\* back, on a normal exit and on an exception alike.
Acquire(value) == value - 1

Release(value) == value + 1

\* The stage position a request gets once the worker holds it: "acquire"
\* is a worker suspended in __aenter__ because no permit is left.
Entered(value, first) == IF value > 0 THEN first ELSE "acquire"

\* the loop reading the head of the queue without taking it off
PreGetPeek ==
    /\ prePc = "get"
    /\ audio_processing_queue # <<>>
    /\ LET r == Head(audio_processing_queue) IN
       /\ stage' = [stage EXCEPT ![r] = Entered(preprocessing_semaphore, "asr")]
       /\ preprocessing_semaphore' =
              IF preprocessing_semaphore > 0
              THEN Acquire(preprocessing_semaphore)
              ELSE preprocessing_semaphore
    /\ prePc' = "stage"
    /\ UNCHANGED <<queueVars, processing_semaphore, rvcPc, engineVars,
                   handlerVars, future, request_data, outcome, overwrite,
                   results_cache, lifeVars, histVars, auxVars>>

\* the loop starting the stage as a task of its own and going back to
\* get() at once, so that the chains of several requests run side by side
PreGetSpawn ==
    /\ prePc = "get"
    /\ audio_processing_queue # <<>>
    /\ LET r == Head(audio_processing_queue) IN
       /\ audio_processing_queue' = Tail(audio_processing_queue)
       /\ stage' = [stage EXCEPT ![r] = Entered(preprocessing_semaphore, "asr")]
       /\ preprocessing_semaphore' =
              IF preprocessing_semaphore > 0
              THEN Acquire(preprocessing_semaphore)
              ELSE preprocessing_semaphore
    /\ UNCHANGED <<rvc_queue, processing_semaphore, workerVars, engineVars,
                   handlerVars, future, request_data, outcome, overwrite,
                   results_cache, lifeVars, histVars, auxVars>>

\* process_preprocessing_queue: get() returns the head of the admission
\* queue, the loop enters the semaphore and awaits the stage coroutine.
\* (The loop's "break" on a None item is never taken: no statement of the
\* program puts None on either queue.)
PreGet ==
    /\ prePc = "get"
    /\ audio_processing_queue # <<>>
    /\ LET r == Head(audio_processing_queue) IN
       /\ audio_processing_queue' = Tail(audio_processing_queue)
       /\ stage' = [stage EXCEPT ![r] = Entered(preprocessing_semaphore, "asr")]
       /\ preprocessing_semaphore' =
              IF preprocessing_semaphore > 0
              THEN Acquire(preprocessing_semaphore)
              ELSE preprocessing_semaphore
    /\ prePc' = "stage"
    /\ UNCHANGED <<rvc_queue, processing_semaphore, rvcPc, engineVars,
                   handlerVars, future, request_data, outcome, overwrite,
                   results_cache,
                   lifeVars, histVars, auxVars>>

\* process_rvc_queue starting the stage as a task of its own
\* (asyncio.create_task) instead of awaiting it inside the semaphore
RvcGetUngated ==
    /\ rvcPc = "get"
    /\ rvc_queue # <<>>
    /\ rvc_queue' = Tail(rvc_queue)
    /\ stage' = [stage EXCEPT ![Head(rvc_queue)] = "convert"]
    /\ UNCHANGED <<audio_processing_queue, semVars, workerVars, engineVars,
                   handlerVars, future, request_data, outcome, overwrite,
                   results_cache,
                   lifeVars, histVars, auxVars>>

\* the loop converting the head of the bottleneck queue and leaving it there
RvcGetPeek ==
    /\ rvcPc = "get"
    /\ rvc_queue # <<>>
    /\ LET r == Head(rvc_queue) IN
       /\ stage' = [stage EXCEPT ![r] = Entered(processing_semaphore, "convert")]
       /\ processing_semaphore' =
              IF processing_semaphore > 0
              THEN Acquire(processing_semaphore)
              ELSE processing_semaphore
    /\ rvcPc' = "stage"
    /\ UNCHANGED <<queueVars, preprocessing_semaphore, prePc,
                   engineVars, handlerVars, future, request_data, outcome,
                   overwrite, results_cache,
                   lifeVars, histVars, auxVars>>

\* process_rvc_queue: the same loop over the bottleneck queue.
RvcGet ==
    /\ rvcPc = "get"
    /\ rvc_queue # <<>>
    /\ LET r == Head(rvc_queue) IN
       /\ rvc_queue' = Tail(rvc_queue)
       /\ stage' = [stage EXCEPT ![r] = Entered(processing_semaphore, "convert")]
       /\ processing_semaphore' =
              IF processing_semaphore > 0
              THEN Acquire(processing_semaphore)
              ELSE processing_semaphore
    /\ rvcPc' = "stage"
    /\ UNCHANGED <<audio_processing_queue, preprocessing_semaphore, prePc,
                   engineVars, handlerVars, future, request_data, outcome,
                   overwrite, results_cache,
                   lifeVars, histVars, auxVars>>

\* the delivery with the permit given back by hand after the stage call
\* instead of by "async with": an exception leaving the stage keeps it
DeliverLeak(r, w, res, next) ==
    LET ok == future[r].state = "pending"
        to == IF ok THEN next ELSE "idle"
    IN
    /\ future' = IF ok
                 THEN [future EXCEPT ![r] = [state |-> "done", result |-> res]]
                 ELSE future
    /\ overwrite' = IF future[r].state = "done"
                    THEN overwrite \cup {r} ELSE overwrite
    /\ stage' = [stage EXCEPT ![r] = to]
    /\ IF to # "idle"
       THEN UNCHANGED <<semVars, workerVars>>
       ELSE IF w = "pre"
       THEN /\ preprocessing_semaphore' =
                   IF ok THEN Release(preprocessing_semaphore)
                   ELSE preprocessing_semaphore
            /\ prePc' = IF ok THEN "get" ELSE "sleep"
            /\ UNCHANGED <<processing_semaphore, rvcPc>>
       ELSE /\ processing_semaphore' =
                   IF ok THEN Release(processing_semaphore)
                   ELSE processing_semaphore
            /\ rvcPc' = IF ok THEN "get" ELSE "sleep"
            /\ UNCHANGED <<preprocessing_semaphore, prePc>>

\* The stage coroutine of worker w calls future.set_result(res) for r and
\* goes on at position next ("idle": it returns).  set_result raises
\* InvalidStateError unless the future is pending; the stage's handler
\* ("except Exception") then calls set_result again, which raises again,
\* and that exception leaves the stage, leaves "async with" (releasing the
\* permit) and is caught by the worker loop, which sleeps 0.1 s and loops.
\* A stage that returns lets the loop release the permit and loop.
Deliver(r, w, res, next) ==
    LET ok == future[r].state = "pending"
        to == IF ok THEN next ELSE "idle"
    IN
    /\ future' = IF ok
                 THEN [future EXCEPT ![r] = [state |-> "done", result |-> res]]
                 ELSE future
    /\ overwrite' = IF future[r].state = "done"
                    THEN overwrite \cup {r} ELSE overwrite
    /\ stage' = [stage EXCEPT ![r] = to]
    /\ IF to # "idle"
       THEN UNCHANGED <<semVars, workerVars>>
       ELSE IF w = "pre"
       THEN /\ preprocessing_semaphore' = Release(preprocessing_semaphore)
            /\ prePc' = IF ok THEN "get" ELSE "sleep"
            /\ UNCHANGED <<processing_semaphore, rvcPc>>
       ELSE /\ processing_semaphore' = Release(processing_semaphore)
            /\ rvcPc' = IF ok THEN "get" ELSE "sleep"
            /\ UNCHANGED <<preprocessing_semaphore, prePc>>

\* the no-speech branch without its return: the stage goes on with step 2
AfterNoSpeechFallThrough == "translate"

\* the no-speech branch starting the recognition over
AfterNoSpeechRetry == "asr"

\* where process_preprocessing_stage goes after delivering "no speech":
\* it returns
AfterNoSpeech == "idle"

\* process_preprocessing_stage, step 1: speech recognition and the
\* no-speech test.
PreAsr(r) ==
    /\ stage[r] = "asr"
    /\ \E o \in AsrOutcomes :
         LET res == extract_text_from_original_audio(request_data[r].audio_blob, o)
         IN
         /\ o = "uninit" => recognizer = "None"
         /\ recognizer' = Loaded(recognizer, o)
         /\ outcome' = [outcome EXCEPT ![r].asr = AsrReturn(o)]
         /\ request_data' = [request_data EXCEPT
                                ![r].original_text = res[1],
                                ![r].detected_lang = res[2]]
         /\ IF IsNoSpeech(res[1])
            THEN Deliver(r, "pre", NoSpeechResult, AfterNoSpeech)
            ELSE /\ stage' = [stage EXCEPT ![r] = "translate"]
                 /\ UNCHANGED <<future, overwrite, semVars, workerVars>>
    /\ UNCHANGED <<queueVars, translator, handlerVars, results_cache,
                   lifeVars, histVars, auxVars>>

\* step 2: translation.
PreTranslate(r) ==
    /\ stage[r] = "translate"
    /\ \E o \in TranslateOutcomes :
         /\ o = "uninit" => translator = "None"
         /\ translator' = Loaded(translator, o)
         /\ outcome' = [outcome EXCEPT ![r].translate = TranslateReturn(o)]
         /\ request_data' = [request_data EXCEPT ![r].translated_text =
                                translate_text(request_data[r].original_text, o)]
    /\ stage' = [stage EXCEPT ![r] = "tts"]
    /\ UNCHANGED <<queueVars, semVars, workerVars, recognizer, handlerVars,
                   future, overwrite, results_cache,
                   lifeVars, histVars, auxVars>>

\* step 3: synthesis; a raised exception is delivered as a 500 result by
\* the stage's handler.
PreTts(r) ==
    /\ stage[r] = "tts"
    /\ \E o \in TtsOutcomes :
         LET res == synthesize_soundoftext(request_data[r].translated_text, o)
         IN
         /\ outcome' = [outcome EXCEPT ![r].tts = o]
         /\ IF res.raised
            THEN /\ Deliver(r, "pre", PreprocessingErrorResult(res.value), "idle")
                 /\ UNCHANGED request_data
            ELSE /\ request_data' = [request_data EXCEPT
                                        ![r].translated_audio_blob = res.value]
                 /\ stage' = [stage EXCEPT ![r] = "put"]
                 /\ UNCHANGED <<future, overwrite, semVars, workerVars>>
    /\ UNCHANGED <<queueVars, engineVars, handlerVars, results_cache,
                   lifeVars, histVars, auxVars>>

\* the put done with put_nowait: a full bottleneck queue raises QueueFull,
\* the request is not enqueued and the stage returns
PrePutNoWait(r) ==
    /\ stage[r] = "put"
    /\ rvc_queue' = IF Full(rvc_queue, RvcQueueMaxSize)
                    THEN rvc_queue ELSE Append(rvc_queue, r)
    /\ stage' = [stage EXCEPT ![r] = "idle"]
    /\ preprocessing_semaphore' = Release(preprocessing_semaphore)
    /\ prePc' = "get"
    /\ UNCHANGED <<audio_processing_queue, processing_semaphore, rvcPc,
                   engineVars, handlerVars, future, request_data, outcome,
                   overwrite, results_cache,
                   lifeVars, histVars, auxVars>>

\* "await rvc_queue.put(request_data)": suspends while the bottleneck queue
\* is full; then the stage returns and the loop releases the permit.
PrePut(r) ==
    /\ stage[r] = "put"
    /\ ~Full(rvc_queue, RvcQueueMaxSize)
    /\ rvc_queue' = Append(rvc_queue, r)
    /\ stage' = [stage EXCEPT ![r] = "idle"]
    /\ preprocessing_semaphore' = Release(preprocessing_semaphore)
    /\ prePc' = "get"
    /\ UNCHANGED <<audio_processing_queue, processing_semaphore, rvcPc,
                   engineVars, handlerVars, future, request_data, outcome,
                   overwrite, results_cache,
                   lifeVars, histVars, auxVars>>

\* process_rvc_stage: voice conversion, the result dict, the cache entry
\* of a convert_new request, and the delivery to the future.
RvcConvert(r) ==
    /\ stage[r] = "convert"
    /\ \E o \in RvcOutcomes :
         LET final_audio_blob ==
                 apply_rvc_conversion(request_data[r].translated_audio_blob, o)
             result == [RvcResult(r) EXCEPT
                           !.translated_audio_blob = b64encode(final_audio_blob)]
         IN
         /\ outcome' = [outcome EXCEPT ![r].rvc = RvcReturn(o)]
         /\ results_cache' =
                IF IsConvertRequest(r)
                THEN {c \in results_cache : c.request_id # result.request_id}
                         \cup {result}
                ELSE results_cache
         /\ Deliver(r, "rvc", result, "idle")
    /\ UNCHANGED <<queueVars, engineVars, handlerVars, request_data,
                   lifeVars, histVars, auxVars>>

\* a worker loop whose handler leaves the loop instead of sleeping
PreSleepExit ==
    /\ prePc = "sleep"
    /\ prePc' = "exited"
    /\ UNCHANGED <<queueVars, semVars, rvcPc, engineVars, handlerVars, reqVars,
                   results_cache,
                   lifeVars, histVars, auxVars>>

\* "await asyncio.sleep(0.1)" in the handler of a worker loop, then the
\* loop goes on with the next get().
PreSleep ==
    /\ prePc = "sleep"
    /\ prePc' = "get"
    /\ UNCHANGED <<queueVars, semVars, rvcPc, engineVars, handlerVars, reqVars,
                   results_cache,
                   lifeVars, histVars, auxVars>>

\* the RVC worker loop leaving the loop from its handler
RvcSleepExit ==
    /\ rvcPc = "sleep"
    /\ rvcPc' = "exited"
    /\ UNCHANGED <<queueVars, semVars, prePc, engineVars, handlerVars, reqVars,
                   results_cache, lifeVars, histVars, auxVars>>

RvcSleep ==
    /\ rvcPc = "sleep"
    /\ rvcPc' = "get"
    /\ UNCHANGED <<queueVars, semVars, prePc, engineVars, handlerVars, reqVars,
                   results_cache,
                   lifeVars, histVars, auxVars>>

\* ------------------------------------------------------------------ Next
Next ==
    \/ initialize_queue_system
    \/ \E hasAudio \in BOOLEAN : process_audio(hasAudio)
    \/ \E hasAudio \in BOOLEAN : convert_new(hasAudio)
    \/ \E r \in Reqs : CancelWait(r)
    \/ \E r \in Reqs : convert_status(r)
    \/ PreGet
    \/ \E r \in Reqs : PreAsr(r)
    \/ \E r \in Reqs : PreTranslate(r)
    \/ \E r \in Reqs : PreTts(r)
    \/ \E r \in Reqs : PrePut(r)
    \/ PreSleep
    \/ RvcGet
    \/ \E r \in Reqs : RvcConvert(r)
    \/ RvcSleep

Spec == Init /\ [][Next]_vars

\* Fairness of the event loop: a worker loop or stage coroutine that can
\* take its next step eventually takes it, and every collaborator call
\* eventually returns or raises.  Handlers and cancellations are not forced.
Fairness ==
    /\ WF_vars(PreGet)
    /\ WF_vars(\E r \in Reqs : PreAsr(r))
    /\ WF_vars(\E r \in Reqs : PreTranslate(r))
    /\ WF_vars(\E r \in Reqs : PreTts(r))
    /\ WF_vars(\E r \in Reqs : PrePut(r))
    /\ WF_vars(PreSleep)
    /\ WF_vars(RvcGet)
    /\ WF_vars(\E r \in Reqs : RvcConvert(r))
    /\ WF_vars(RvcSleep)

FairSpec == Init /\ [][Next]_vars /\ Fairness

\* The server's whole life: it serves (Next) until aiohttp runs the
\* on_cleanup handlers; the worker tasks, which nothing has stopped, go on
\* taking steps of Next after that.
NextWithShutdown ==
    \/ Next
    \/ cleanup_handler

LifecycleSpec == Init /\ [][NextWithShutdown]_vars

\* ------------------------------------------- the direction of translation
\* The translation step of process_preprocessing_stage on its own, with the
\* languages the queue model leaves out: one call of translate_text for
\* each transcript, detected language and requested target language.
TRANSLATION_TARGET_LANGUAGE == "JA"
TRANSLATION_SOURCE_LANGUAGE == "EN"

\* str.lower() on the language codes in use
Lower(code) ==
    CASE code = "JA" -> "ja"
      [] code = "EN" -> "en"
      [] OTHER -> code

\* what the recognizer reports ("unknown": the error path of
\* extract_text_from_original_audio) and what a request may ask for
DetectedLangs == {"en", "ja", "unknown"}
TargetLangs == {"ja", "en", "hi"}
Transcripts == {<<"asr", "audio", "1">>, <<"asr", "audio", "2">>}

\* the target chosen by the first definition of translate_text (two
\* parameters): back to the configured source language when the detected
\* language is the configured target language
translate_text_by_detected(detected_lang) ==
    IF detected_lang # "" /\
       Lower(detected_lang) = Lower(TRANSLATION_TARGET_LANGUAGE)
    THEN TRANSLATION_SOURCE_LANGUAGE
    ELSE TRANSLATION_TARGET_LANGUAGE

\* "translator.translate(text, target_lang, source_lang)" in the second
\* definition of translate_text (three parameters), the one the name is
\* bound to when the pipeline runs
TranslateArgs(text, source_lang, target_lang) ==
    [text |-> text, target |-> target_lang, source |-> source_lang]

InitDirection ==
    /\ InitQueueSystem
    /\ tr_call \in [called : {TRUE}, text : Transcripts,
                    source_lang : DetectedLangs, target_lang : TargetLangs,
                    o : TranslateOutcomes]
    /\ tr_sent = NoCall
    /\ NoSynthesis
    /\ NoBatch

\* "translated_text = await translate_text(original_text, detected_lang,
\* target_lang)"
PipelineTranslate ==
    /\ tr_call.called
    /\ tr_sent = NoCall
    /\ tr_sent' =
           IF tr_call.o = "uninit"
           THEN [called |-> FALSE,
                 returned |-> translate_text(tr_call.text, tr_call.o)]
           ELSE [called |-> TRUE,
                 args |-> TranslateArgs(tr_call.text, tr_call.source_lang,
                                        tr_call.target_lang),
                 returned |-> translate_text(tr_call.text, tr_call.o)]
    /\ UNCHANGED <<queueVars, semVars, workerVars, engineVars, handlerVars,
                   reqVars, results_cache, lifeVars, histVars, tr_call,
                   ttsVars, batchVars>>

NextDirection == PipelineTranslate

DirectionSpec == InitDirection /\ [][NextDirection]_vars

\* ------------------------------------- SoundOfTextTTS.synthesize_to_mp3_url
\* One call of synthesize_to_mp3_url against a service that may answer
\* each request in any way.  tts.polls counts the status requests made,
\* tts.first_done and tts.first_error are the numbers of the first poll
\* that reported 'done' with a location and of the first poll that
\* reported 'error' or 'done' without a location (0: none yet).
max_attempts == 20

TtsTexts == {"hello", " "}

\* "not text.strip()"
IsBlank(text) == text \in {"", " "}

\* the answers to the POST: accepted with an id, a response that is not
\* ok, success false, no id, a timeout, any other exception
SubmitOutcomes == {"ok", "not_ok", "no_success", "no_id", "timeout", "exception"}

\* the answers to a status GET
PollOutcomes ==
    {"not_ok", "pending", "unknown", "timeout", "exception",
     "done", "done_no_location", "error"}

\* what the body of the poll loop's try raises on an answer
PollRaises(o) ==
    CASE o = "timeout" -> "TimeoutError"
      [] o = "exception" -> "ClientError"
      [] o \in {"done_no_location", "error"} -> "RuntimeError"
      [] OTHER -> "none"

\* "except asyncio.TimeoutError: ... continue" and "except Exception as e:
\* ... continue": every exception raised inside the try is caught there
CaughtInLoop(exc) == exc \in {"TimeoutError", "ClientError", "RuntimeError"}

\* a loop that goes round once more
MoreAttemptsInclusive(attempt) == attempt <= max_attempts

\* "for attempt in range(max_attempts)"
MoreAttempts(attempt) == attempt < max_attempts

InitTts ==
    /\ InitQueueSystem
    /\ NoDirection
    /\ NoBatch
    /\ tts \in [pc : {"called"}, text : TtsTexts, attempt : {0}, polls : {0},
                result : {"none"}, first_done : {0}, first_error : {0}]

\* the argument check and the POST of step 1
TtsSubmit ==
    /\ tts.pc = "called"
    /\ IF IsBlank(tts.text)
       THEN tts' = [tts EXCEPT !.pc = "raised", !.result = "ValueError"]
       ELSE \E o \in SubmitOutcomes :
                tts' = IF o = "ok"
                       THEN [tts EXCEPT !.pc = "poll"]
                       ELSE [tts EXCEPT !.pc = "raised",
                                        !.result = "RuntimeError"]
    /\ UNCHANGED <<queueVars, semVars, workerVars, engineVars, handlerVars,
                   reqVars, results_cache, lifeVars, histVars, dirVars,
                   batchVars>>

\* one round of the poll loop: the 1.5 s sleep, the GET and what the loop
\* does with the answer
TtsPoll ==
    /\ tts.pc = "poll"
    /\ MoreAttempts(tts.attempt)
    /\ \E o \in PollOutcomes :
         LET n == tts.polls + 1
             exc == PollRaises(o)
             seen == [tts EXCEPT
                        !.attempt = @ + 1,
                        !.polls = n,
                        !.first_done =
                            IF o = "done" /\ @ = 0 THEN n ELSE @,
                        !.first_error =
                            IF o \in {"error", "done_no_location"} /\ @ = 0
                            THEN n ELSE @]
         IN
         tts' = IF o = "done"
                THEN [seen EXCEPT !.pc = "returned", !.result = "url"]
                ELSE IF exc # "none" /\ ~CaughtInLoop(exc)
                THEN [seen EXCEPT !.pc = "raised", !.result = exc]
                ELSE seen
    /\ UNCHANGED <<queueVars, semVars, workerVars, engineVars, handlerVars,
                   reqVars, results_cache, lifeVars, histVars, dirVars,
                   batchVars>>

\* the loop is exhausted: "raise RuntimeError('TTS synthesis timed out or
\* failed to complete')"
TtsExhausted ==
    /\ tts.pc = "poll"
    /\ ~MoreAttempts(tts.attempt)
    /\ tts' = [tts EXCEPT !.pc = "raised", !.result = "RuntimeError"]
    /\ UNCHANGED <<queueVars, semVars, workerVars, engineVars, handlerVars,
                   reqVars, results_cache, lifeVars, histVars, dirVars,
                   batchVars>>

NextTts ==
    \/ TtsSubmit
    \/ TtsPoll
    \/ TtsExhausted

\* every request of the call is made with a timeout, so each step of the
\* coroutine is taken in the end
TtsSpec == InitTts /\ [][NextTts]_vars /\ WF_vars(NextTts)

\* -------------------------------------------- AudioProcessor.process_folder
\* One call of process_folder on a folder of batch.files audio files:
\* gather starts one process_with_semaphore task per file; file_pc[f] is
\* where the task of file f stands, semaphore and rvc_semaphore are the
\* free permits of the two asyncio semaphores.
Files == 1 .. batch.files

\* the task is inside process_single_file
Inside(f) == file_pc[f] \in {"translate", "wait_rvc", "rvc", "save"}

\* the task has a voice-conversion request in flight
InRvc(f) == file_pc[f] = "rvc"

Finished(f) == file_pc[f] \in {"True", "False"}

\* an "async with" whose permit is lost when its body raises
ExitOnExceptionKeeping(value) == value

\* Semaphore.release on leaving an "async with" block by an exception
ExitOnException(value) == value + 1

\* Semaphore.release on leaving an "async with" block by return
Exit(value) == value + 1

\* Semaphore.acquire on entering an "async with" block
Enter(value) == value - 1

InitBatch ==
    /\ InitQueueSystem
    /\ NoDirection
    /\ NoSynthesis
    /\ file_pc = <<>>
    /\ semaphore = 0
    /\ rvc_semaphore = 1
    /\ batch \in [pc : {"called"}, max_concurrent : -1 .. MaxConcurrent,
                  files : 0 .. MaxFiles, total : {0}, successful : {0},
                  failed : {0}]

\* process_folder up to the gather call: the empty folder returns at once,
\* asyncio.Semaphore refuses a negative value, otherwise one task per file
\* is created
process_folder ==
    /\ batch.pc = "called"
    /\ IF batch.files = 0
       THEN /\ batch' = [batch EXCEPT !.pc = "returned"]
            /\ UNCHANGED <<file_pc, semaphore>>
       ELSE IF batch.max_concurrent < 0
       THEN /\ batch' = [batch EXCEPT !.pc = "raised"]
            /\ UNCHANGED <<file_pc, semaphore>>
       ELSE /\ batch' = [batch EXCEPT !.pc = "gather"]
            /\ semaphore' = batch.max_concurrent
            /\ file_pc' = [f \in Files |-> "wait"]
    /\ UNCHANGED <<queueVars, semVars, workerVars, engineVars, handlerVars,
                   reqVars, results_cache, lifeVars, histVars, dirVars,
                   ttsVars, rvc_semaphore>>

\* "async with semaphore:" of process_with_semaphore
process_with_semaphore(f) ==
    /\ batch.pc = "gather"
    /\ f \in Files
    /\ file_pc[f] = "wait"
    /\ semaphore > 0
    /\ semaphore' = Enter(semaphore)
    /\ file_pc' = [file_pc EXCEPT ![f] = "translate"]
    /\ UNCHANGED <<queueVars, semVars, workerVars, engineVars, handlerVars,
                   reqVars, results_cache, lifeVars, histVars, dirVars,
                   ttsVars, rvc_semaphore, batch>>

\* step 1 of process_single_file: the translation request succeeds, or it
\* raises, process_single_file returns False and the permit is given back
process_audio_translation(f) ==
    /\ batch.pc = "gather"
    /\ f \in Files
    /\ file_pc[f] = "translate"
    /\ \E ok \in BOOLEAN :
         IF ok
         THEN /\ file_pc' = [file_pc EXCEPT ![f] = "wait_rvc"]
              /\ UNCHANGED semaphore
         ELSE /\ file_pc' = [file_pc EXCEPT ![f] = "False"]
              /\ semaphore' = ExitOnException(semaphore)
    /\ UNCHANGED <<queueVars, semVars, workerVars, engineVars, handlerVars,
                   reqVars, results_cache, lifeVars, histVars, dirVars,
                   ttsVars, rvc_semaphore, batch>>

\* "async with self.rvc_semaphore:" of apply_voice_conversion
rvc_acquire(f) ==
    /\ batch.pc = "gather"
    /\ f \in Files
    /\ file_pc[f] = "wait_rvc"
    /\ rvc_semaphore > 0
    /\ rvc_semaphore' = Enter(rvc_semaphore)
    /\ file_pc' = [file_pc EXCEPT ![f] = "rvc"]
    /\ UNCHANGED <<queueVars, semVars, workerVars, engineVars, handlerVars,
                   reqVars, results_cache, lifeVars, histVars, dirVars,
                   ttsVars, semaphore, batch>>

\* the conversion request answers: the converted audio is returned, or
\* the exception is raised again, leaves the "async with" and is caught by
\* process_single_file, which returns False
apply_voice_conversion(f) ==
    /\ batch.pc = "gather"
    /\ f \in Files
    /\ file_pc[f] = "rvc"
    /\ \E ok \in BOOLEAN :
         IF ok
         THEN /\ file_pc' = [file_pc EXCEPT ![f] = "save"]
              /\ rvc_semaphore' = Exit(rvc_semaphore)
              /\ UNCHANGED semaphore
         ELSE /\ file_pc' = [file_pc EXCEPT ![f] = "False"]
              /\ rvc_semaphore' = ExitOnException(rvc_semaphore)
              /\ semaphore' = Exit(semaphore)
    /\ UNCHANGED <<queueVars, semVars, workerVars, engineVars, handlerVars,
                   reqVars, results_cache, lifeVars, histVars, dirVars,
                   ttsVars, batch>>

\* step 3 of process_single_file: the audio and its metadata are written
\* and True is returned, or a write raises and False is returned
save_converted(f) ==
    /\ batch.pc = "gather"
    /\ f \in Files
    /\ file_pc[f] = "save"
    /\ \E ok \in BOOLEAN :
         file_pc' = [file_pc EXCEPT ![f] = IF ok THEN "True" ELSE "False"]
    /\ semaphore' = Exit(semaphore)
    /\ UNCHANGED <<queueVars, semVars, workerVars, engineVars, handlerVars,
                   reqVars, results_cache, lifeVars, histVars, dirVars,
                   ttsVars, rvc_semaphore, batch>>

\* gather has every result: the statistics are computed and returned
process_folder_return ==
    /\ batch.pc = "gather"
    /\ \A f \in Files : Finished(f)
    /\ LET successful == Cardinality({f \in Files : file_pc[f] = "True"})
       IN batch' = [batch EXCEPT !.pc = "returned",
                                 !.total = batch.files,
                                 !.successful = successful,
                                 !.failed = batch.files - successful]
    /\ UNCHANGED <<queueVars, semVars, workerVars, engineVars, handlerVars,
                   reqVars, results_cache, lifeVars, histVars, dirVars,
                   ttsVars, file_pc, semaphore, rvc_semaphore>>

NextBatch ==
    \/ process_folder
    \/ \E f \in Files :
         \/ process_with_semaphore(f)
         \/ process_audio_translation(f)
         \/ rvc_acquire(f)
         \/ apply_voice_conversion(f)
         \/ save_converted(f)
    \/ process_folder_return

\* Every request is made with a timeout and the event loop runs every
\* ready task; a semaphore wakes its waiters in turn, so a task that can
\* acquire again and again does acquire.
BatchFairness ==
    /\ WF_vars(process_folder)
    /\ WF_vars(process_folder_return)
    /\ \A f \in 1 .. MaxFiles :
         /\ SF_vars(process_with_semaphore(f))
         /\ WF_vars(process_audio_translation(f))
         /\ SF_vars(rvc_acquire(f))
         /\ WF_vars(apply_voice_conversion(f))
         /\ WF_vars(save_converted(f))

BatchSpec == InitBatch /\ [][NextBatch]_vars /\ BatchFairness

\* ---------------------------------------------------- vocabulary of claims
InQueue(q, r) == \E i \in 1..Len(q) : q[i] = r

Accepted(r) == future[r].state # "none"
Resolved(r) == future[r].state = "done"
Cancelled(r) == future[r].state = "cancelled"
Failed(r) == Resolved(r) /\ future[r].result.error # Empty
Completed(r) == Resolved(r) /\ future[r].result.error = Empty
Cached(r) == \E c \in results_cache : c.request_id = RequestId(prefix[r], r)

AtCapacity(q, maxsize) == Len(q) = maxsize

InPreprocessing == {r \in Reqs : stage[r] \in {"asr", "translate", "tts", "put"}}
InConversion == {r \in Reqs : stage[r] = "convert"}

\* The requests the preprocessing worker has taken off the admission queue.
Dequeued == {r \in Reqs : Accepted(r) /\ ~InQueue(audio_processing_queue, r)}

\* The delivery of r's result raised (the caller had cancelled the future)
\* and the exception left the stage function: r is out of the pipeline
\* with its future still cancelled.
Escaped(r) ==
    /\ r \in Dequeued
    /\ Cancelled(r)
    /\ stage[r] = "idle"
    /\ ~InQueue(rvc_queue, r)

\* The requests whose processing has failed, either way.
ProcessingFailed == {r \in Reqs : Failed(r) \/ Escaped(r)}

Started == startup.queues > 0

\* ------------------------------------------------------------------ claims
\* The invocation that takes a step of Admit, and whether it carried audio.
Submitted == nextReq' = nextReq + 1
Newest == nextReq'

\* C1: a submission that finds the admission queue at capacity is answered
\* 503 in that same step: it is not enqueued, gets no future, and leaves
\* both queues, the workers, the semaphores and the result cache as they
\* were; no handler is ever suspended in Queue.put, and a rejected request
\* never shows up in a queue, a stage or the cache later.
C1_RejectedStaysOut ==
    \A r \in Reqs :
        /\ handler[r] # "put_wait"
        /\ handler[r] = "rejected503" =>
              /\ future[r].state = "none"
              /\ ~InQueue(audio_processing_queue, r)
              /\ ~InQueue(rvc_queue, r)
              /\ stage[r] = "idle"
              /\ ~Cached(r)

C1_RejectStep ==
    (/\ Submitted
     /\ AtCapacity(audio_processing_queue, MainQueueMaxSize)
     /\ handler'[Newest] # "rejected400") =>
        /\ handler'[Newest] = "rejected503"
        /\ future'[Newest].state = "none"
        /\ UNCHANGED <<queueVars, semVars, workerVars, engineVars, reqVars,
                       results_cache>>

C1_FullQueueRejects == []C1_RejectedStaysOut /\ [][C1_RejectStep]_vars

C1_Witness ==
    \E r \in Reqs :
        /\ handler[r] = "rejected503"
        /\ AtCapacity(audio_processing_queue, MainQueueMaxSize)

\* C2: as long as the preprocessing worker has dequeued nothing, the first
\* MainQueueMaxSize submissions that carry audio are accepted (and sit in
\* the admission queue) and every later one is rejected with 503.
NoDequeueYet ==
    \A r \in Reqs : Accepted(r) => InQueue(audio_processing_queue, r)

WithAudioUpTo(r) == Cardinality({j \in 1..r : handler[j] # "rejected400"})

C2_CapacityThenReject ==
    NoDequeueYet =>
        \A r \in 1..nextReq :
            handler[r] # "rejected400" =>
                IF WithAudioUpTo(r) <= MainQueueMaxSize
                THEN Accepted(r) /\ handler[r] \in {"awaiting", "queued", "cancelled"}
                ELSE handler[r] = "rejected503" /\ ~Accepted(r)

C2_Witness ==
    /\ NoDequeueYet
    /\ AtCapacity(audio_processing_queue, MainQueueMaxSize)
    /\ \E r \in Reqs : handler[r] = "rejected503"
                          /\ WithAudioUpTo(r) = MainQueueMaxSize + 1

\* C3: at most max_concurrent_requests (1) requests are inside the
\* conversion call, and each of them holds one permit of the RVC semaphore.
C3_ConversionSerialized ==
    /\ Cardinality(InConversion) <= max_concurrent_requests
    /\ Cardinality(InConversion) + processing_semaphore = max_concurrent_requests
    /\ processing_semaphore >= 0

\* one request is being converted while the next one is ready in the queue
C3_Witness ==
    /\ Cardinality(InConversion) = 1
    /\ rvc_queue # <<>>

\* C4: at most max_concurrent_preprocessing (5) requests are inside the
\* preprocessing chain, a request suspended in the put to the bottleneck
\* queue included, and each of them holds one permit of the semaphore.
C4_PreprocessingBounded ==
    /\ Cardinality(InPreprocessing) <= max_concurrent_preprocessing
    /\ Cardinality(InPreprocessing) + preprocessing_semaphore
           = max_concurrent_preprocessing
    /\ preprocessing_semaphore >= 0

\* a request suspended in the put while the bottleneck queue is full
C4_Witness ==
    \E r \in Reqs :
        /\ stage[r] = "put"
        /\ AtCapacity(rvc_queue, RvcQueueMaxSize)

\* C5: set_result is never called on a future that already has a result,
\* and a request with a Failed result never got as far as the conversion
\* stage, where the Completed result is composed, cached and delivered.
C5_ResolvedAtMostOnce ==
    /\ overwrite = {}
    /\ \A r \in Reqs : Failed(r) => (outcome[r].rvc = "" /\ ~Cached(r))
    /\ \A r \in Reqs : Cached(r) => ~Failed(r)

\* both terminal outcomes occur, on different requests
C5_Witness ==
    \E r1, r2 \in Reqs : Failed(r1) /\ Completed(r2) /\ outcome[r1].asr = "empty"

\* C6: under the fairness of the event loop an accepted request is never
\* lost: while its future is pending it is in one of the queues or inside a
\* stage, and eventually its future is resolved, unless the caller gave up
\* the wait and cancelled the future first.
C6_PendingIsInPipeline ==
    \A r \in Reqs :
        /\ future[r].state = "pending" =>
               \/ InQueue(audio_processing_queue, r)
               \/ InQueue(rvc_queue, r)
               \/ stage[r] # "idle"
        /\ Cancelled(r) => handler[r] = "cancelled" /\ prefix[r] = "req_"

C6_AcceptedEventuallyTerminal ==
    /\ []C6_PendingIsInPipeline
    /\ \A r \in Reqs : Accepted(r) ~> (Resolved(r) \/ Cancelled(r))

\* every request of the run was accepted and resolved, one of them after
\* waiting in the admission queue behind the other
C6_Witness ==
    /\ \A r \in Reqs : Resolved(r)
    /\ \E r \in Reqs : Completed(r) /\ IsConvertRequest(r)

\* C7: a request whose recognizer returned no text is not translated,
\* synthesized or converted and is never put on the bottleneck queue; its
\* stage returns at once and its future holds the no-speech failure, unless
\* the caller cancelled it before.
AsrEmpty(r) == outcome[r].asr = "empty"

C7_NoSpeechFails ==
    \A r \in Reqs :
        AsrEmpty(r) =>
            /\ ~InQueue(rvc_queue, r)
            /\ outcome[r].translate = "" /\ outcome[r].tts = ""
            /\ outcome[r].rvc = ""
            /\ stage[r] = "idle"
            /\ ~Cached(r)
            /\ \/ Resolved(r) /\ future[r].result = NoSpeechResult
               \/ Cancelled(r)
            /\ handler[r] # "cancelled" => Resolved(r)

C7_Witness ==
    \E r \in Reqs :
        /\ outcome[r].asr = "empty"
        /\ Resolved(r)
        /\ future[r].result.error = <<"No speech detected in audio">>

\* C8: a request whose conversion call failed (non-200 response or
\* exception) is resolved Completed, never Failed, and the audio of its
\* result is the (base64-encoded) audio that synthesis produced for it.
RvcFailed(r) == outcome[r].rvc = "failed"

PassThrough(r, res) ==
    /\ res.error = Empty
    /\ res.request_id = RequestId(prefix[r], r)
    /\ res.translated_audio_blob = b64encode(request_data[r].translated_audio_blob)
    /\ request_data[r].translated_audio_blob
           = <<"tts">> \o request_data[r].translated_text

C8_ConversionFailureDegrades ==
    \A r \in Reqs :
        RvcFailed(r) =>
            /\ ~Failed(r)
            /\ Resolved(r) \/ Cancelled(r)
            /\ handler[r] # "cancelled" => Completed(r)
            /\ Resolved(r) => PassThrough(r, future[r].result)
            /\ \A c \in results_cache :
                   c.request_id = RequestId(prefix[r], r) => PassThrough(r, c)

C8_Witness ==
    \E r1, r2 \in Reqs :
        /\ r1 # r2
        /\ RvcFailed(r1) /\ Completed(r1) /\ Cached(r1)
        /\ outcome[r2].rvc = "ok" /\ Completed(r2)

\* C9: a request whose translation step fails (the engine raises, yields
\* nothing, or is not available) is resolved Failed, is not synthesized,
\* does not reach the bottleneck queue, and its translated text is not the
\* original text.
TranslationFailed(r) == outcome[r].translate \in {"empty", "uninit"}

C9_TranslationFailureFails ==
    \A r \in Reqs :
        TranslationFailed(r) =>
            /\ outcome[r].tts = ""
            /\ outcome[r].rvc = ""
            /\ ~InQueue(rvc_queue, r)
            /\ ~Completed(r)
            /\ request_data[r].translated_text # request_data[r].original_text

\* C10: a request whose synthesis raised is resolved Failed with the 500
\* preprocessing error (unless the caller cancelled it before), is never put
\* on the bottleneck queue or converted, and neither its future nor the
\* cache gets any part of a result.
C10_SynthesisFailureFails ==
    \A r \in Reqs :
        outcome[r].tts = "error" =>
            /\ ~InQueue(rvc_queue, r)
            /\ outcome[r].rvc = ""
            /\ stage[r] = "idle"
            /\ ~Cached(r)
            /\ \/ Resolved(r)
                  /\ future[r].result = PreprocessingErrorResult(<<"RuntimeError">>)
               \/ Cancelled(r)
            /\ handler[r] # "cancelled" => Failed(r)
            /\ request_data[r].translated_audio_blob = Empty

C10_Witness ==
    \E r \in Reqs :
        /\ outcome[r].tts = "error"
        /\ IsConvertRequest(r)
        /\ Failed(r) /\ future[r].result.status = 500

\* C11: once the queue system is started both worker loops are running at
\* every moment (dequeuing, inside a stage, or in the 0.1 s pause after an
\* exception that left a stage), whatever failed before; and under the
\* fairness of the event loop a request that waits in the admission queue
\* after some request's processing has failed is dequeued and processed to
\* its end: its future is resolved, or the delivery to its cancelled future
\* raises.
LoopRunning(pc) == pc \in {"get", "stage", "sleep"}

C11_LoopsRunning == Started => LoopRunning(prePc) /\ LoopRunning(rvcPc)

C11_FailureKeepsLoopsRunning ==
    /\ []C11_LoopsRunning
    /\ \A r \in Reqs :
           (ProcessingFailed # {} /\ InQueue(audio_processing_queue, r))
               ~> (Resolved(r) \/ Escaped(r))

\* a request's delivery raised in preprocessing, the worker loops went on,
\* and a later request, dequeued after that, was processed to completion
C11_Witness ==
    \E r1, r2 \in Reqs :
        /\ r1 < r2
        /\ Escaped(r1) /\ outcome[r1].rvc = ""
        /\ Completed(r2)
        /\ prePc = "get" /\ rvcPc = "get"

\* C12: a worker loop that is not inside a stage (it waits in get(), or
\* pauses after an exception that left the stage) holds no permit: its
\* semaphore has all its permits, whichever way the requests before left
\* the stage.
Outside(pc) == pc \in {"get", "sleep"}

C12_PermitsReturned ==
    /\ Outside(prePc) => preprocessing_semaphore = max_concurrent_preprocessing
    /\ Outside(rvcPc) => processing_semaphore = max_concurrent_requests

\* both loops wait in get() with all permits back after one request's
\* delivery raised and another's synthesis failed
C12_Witness ==
    \E r1, r2 \in Reqs :
        /\ Escaped(r1)
        /\ Failed(r2) /\ outcome[r2].tts = "error"
        /\ prePc = "get" /\ rvcPc = "get"
        /\ preprocessing_semaphore = max_concurrent_preprocessing
        /\ processing_semaphore = max_concurrent_requests

\* C13: the preprocessing worker runs requests concurrently up to its
\* limit: it holds a waiting request back only while the gate is exhausted.
\* Whenever a request waits in the admission queue and a permit is free,
\* the worker is ready to dequeue it (or is in its pause after an
\* exception), so that the waiting request joins the ones already inside
\* the chain.
C13_RunsUpToLimit ==
    (Started /\ audio_processing_queue # <<>> /\ preprocessing_semaphore > 0)
        => Outside(prePc)

\* What the worker does instead: it awaits the stage of the request it
\* dequeued before it dequeues the next, so the chain never holds two.
C13_ChainIsSerial ==
    /\ Cardinality(InPreprocessing) <= 1
    /\ preprocessing_semaphore >= max_concurrent_preprocessing - 1

\* C14: for every request id convert_status answers 'completed' at most
\* once, and once it has done so the id has no cache entry any more, so
\* that every later call for the id answers 'processing'.
C14_RetrievedOnce ==
    \A r \in Reqs :
        /\ retrievals[r] <= 1
        /\ retrievals[r] = 1 => ~Cached(r)

\* a completed convert_new request whose result was fetched, while the
\* result of another one is still in the cache
C14_Witness ==
    \E r1, r2 \in Reqs :
        /\ retrievals[r1] = 1 /\ Completed(r1) /\ IsConvertRequest(r1)
        /\ retrievals[r2] = 0 /\ Cached(r2)

\* C15: for a request admitted by convert_new, convert_status finds no
\* cache entry as long as the request has no terminal outcome, and from the
\* moment it has one, Completed or Failed, its result is in the cache until
\* a convert_status call has fetched it.
C15_TerminalIsRetrievable ==
    \A r \in Reqs :
        (IsConvertRequest(r) /\ Accepted(r)) =>
            /\ ~Resolved(r) => ~Cached(r)
            /\ (Resolved(r) /\ retrievals[r] = 0) => Cached(r)

\* C16 as claimed: every request that has been through the conversion
\* stage (and whose caller did not cancel the wait) has its Result on its
\* future and, until it is fetched, in the cache, whether process_audio or
\* convert_new admitted it.
ByConvertNew(r) == Accepted(r) /\ prefix[r] = "conv_"
ByProcessAudio(r) == Accepted(r) /\ prefix[r] = "req_"
Converted(r) == outcome[r].rvc # ""
IsResultOf(r, res) == res.error = Empty /\ res.request_id = RequestId(prefix[r], r)

C16_BothPathsAlways ==
    \A r \in Reqs :
        (Converted(r) /\ ~Cancelled(r)) =>
            /\ Completed(r) /\ IsResultOf(r, future[r].result)
            /\ Cached(r) \/ retrievals[r] > 0

\* C16 as amended: a request that has been through the conversion stage
\* has its Result on its future unless the waiting caller had cancelled the
\* future; the Result is stored in the cache (the same dict, until it is
\* fetched) exactly when convert_new admitted the request, and never when
\* process_audio did.
C16_CacheOnlyForConvertNew ==
    \A r \in Reqs :
        Converted(r) =>
            /\ \/ Completed(r) /\ IsResultOf(r, future[r].result)
               \/ Cancelled(r) /\ ByProcessAudio(r)
            /\ ByConvertNew(r) =>
                   /\ Completed(r)
                   /\ Cached(r) \/ retrievals[r] = 1
                   /\ \A c \in results_cache :
                          c.request_id = RequestId(prefix[r], r)
                              => c = future[r].result
            /\ ByProcessAudio(r) => ~Cached(r) /\ retrievals[r] = 0

\* one request of each kind has completed in the conversion stage
C16_Witness ==
    \E r1, r2 \in Reqs :
        /\ ByConvertNew(r1) /\ Converted(r1) /\ Completed(r1) /\ Cached(r1)
        /\ ByProcessAudio(r2) /\ Converted(r2) /\ Completed(r2) /\ ~Cached(r2)

\* C17 as claimed, for an admission queue of capacity MainQueueMaxSize and
\* MainQueueMaxSize + 1 submissions that all carry audio: as long as no
\* collaborator call of any request has returned and no future is
\* resolved, the first MainQueueMaxSize submissions are accepted and the
\* last one is rejected with 503, however the submissions interleave with
\* the two worker loops.
NoProcessingCompleted ==
    \A r \in Reqs : outcome[r] = NoOutcome /\ ~Resolved(r)

AllCarryAudio(n) == \A j \in 1..n : handler[j] # "rejected400"

C17_LastOneRejected ==
    (/\ nextReq = MainQueueMaxSize + 1
     /\ AllCarryAudio(nextReq)
     /\ NoProcessingCompleted) =>
        /\ \A j \in 1..MainQueueMaxSize : Accepted(j)
        /\ handler[MainQueueMaxSize + 1] = "rejected503"

\* C17 as amended: under the same conditions the first MainQueueMaxSize
\* submissions are accepted, and the last one is rejected with 503 exactly
\* if the preprocessing worker has dequeued nothing before it is
\* submitted; after a dequeue the queue has a free slot and the last
\* submission is accepted too.
C17_FirstOnesAccepted ==
    (AllCarryAudio(nextReq) /\ NoProcessingCompleted) =>
        \A j \in 1..nextReq : j <= MainQueueMaxSize => Accepted(j)

C17_LastOneStep ==
    (/\ Submitted
     /\ Newest = MainQueueMaxSize + 1
     /\ \A j \in 1..Newest : handler'[j] # "rejected400"
     /\ NoProcessingCompleted) =>
        /\ Dequeued = {} =>
               handler'[Newest] = "rejected503" /\ future'[Newest].state = "none"
        /\ Dequeued # {} =>
               handler'[Newest] # "rejected503" /\ future'[Newest].state = "pending"

C17_RejectedUnlessDequeued ==
    []C17_FirstOnesAccepted /\ [][C17_LastOneStep]_vars

\* the last submission was accepted before any collaborator call returned:
\* the worker had taken the first request off the queue
C17_Witness ==
    /\ nextReq = MainQueueMaxSize + 1
    /\ AllCarryAudio(nextReq)
    /\ NoProcessingCompleted
    /\ \A j \in 1..nextReq : Accepted(j)
    /\ stage[1] = "asr"

\* Request a was submitted, accepted and taken off the admission queue
\* before request b was submitted and accepted.  The queue b was put on
\* held the latest accepted requests before b: position[b] - 1 of them for
\* a convert_new request, and at most MainQueueMaxSize - 1 for any request
\* (else b would have been rejected); a is none of them when at least that
\* many requests were accepted from a on.
DequeuedBefore(a, b) ==
    /\ a < b
    /\ Accepted(a) /\ Accepted(b)
    /\ Cardinality({j \in a..(b - 1) : Accepted(j)})
           >= (IF prefix[b] = "conv_" THEN position[b] ELSE MainQueueMaxSize)

\* C18 as claimed: if a was submitted and dequeued before b was submitted
\* (and a's caller has not cancelled the wait), a's future is resolved
\* before b's: b's future is never resolved while a's is not, whatever the
\* collaborator calls of a and b do.
C18_ResolvedInOrder ==
    \A a, b \in Reqs :
        (DequeuedBefore(a, b) /\ ~Cancelled(a)) =>
            (Resolved(b) => Resolved(a))

\* C18 as amended: for a submitted before b (dequeued before b's submission
\* or not) whose caller has not cancelled the wait, b's future is resolved
\* before a's only when b fails in preprocessing (no speech, synthesis
\* failure) while a is waiting for the conversion or inside it; a b that
\* completes is resolved after a.
C18_OrderUnlessEarlyFailure ==
    \A a, b \in Reqs :
        (a < b /\ Accepted(a) /\ Accepted(b) /\ ~Cancelled(a)) =>
            /\ (Resolved(b) /\ ~Resolved(a)) =>
                   /\ Failed(b) /\ ~Converted(b)
                   /\ InQueue(rvc_queue, a) \/ stage[a] = "convert"
            /\ Completed(b) => Resolved(a)

\* both requests completed, the first one dequeued before the second was
\* submitted
C18_Witness ==
    \E a, b \in Reqs :
        /\ DequeuedBefore(a, b)
        /\ Completed(a) /\ Completed(b)
        /\ outcome[a].rvc = "failed" /\ outcome[b].rvc = "ok"

\* C19: however many calls of initialize_queue_system there are and
\* wherever they fall between the other steps, each of the two queues, the
\* two semaphores and the two worker tasks is created at most once, all of
\* them by the same call, and the workers run only once they are created.
Once == [queues |-> 1, semaphores |-> 1, pre_workers |-> 1, rvc_workers |-> 1]

C19_StartupOnce ==
    /\ startup \in {NotStarted, Once}
    /\ startup = NotStarted =>
           /\ prePc = "none" /\ rvcPc = "none"
           /\ nextReq = 0
    /\ startup = Once => prePc # "none" /\ rvcPc # "none"

\* the queue system created once, after every handler invocation of the
\* run and with requests of both handlers processed
C19_Witness ==
    /\ startup = Once
    /\ nextReq = MaxRequests
    /\ \E r1, r2 \in Reqs :
           ByConvertNew(r1) /\ Resolved(r1) /\ ByProcessAudio(r2) /\ Resolved(r2)

\* C20: once cleanup_handler has returned neither worker loop is running:
\* each was stopped by cancellation (or left its loop on a None item), and
\* the requests still queued or inside a stage stay where they are.
Stopped(pc) == pc \in {"cancelled", "exited"}

C20_CleanupStopsWorkers == cleaned => Stopped(prePc) /\ Stopped(rvcPc)

\* C21: a request occurs at most once in the two queues together; a request
\* inside a stage is in neither queue; a request whose processing has begun
\* is never on the admission queue again; and only a request that was
\* synthesized is on the bottleneck queue.
Occurrences(q, r) == Cardinality({i \in 1..Len(q) : q[i] = r})

C21_AtMostOneQueue ==
    \A r \in Reqs :
        /\ Occurrences(audio_processing_queue, r) + Occurrences(rvc_queue, r) <= 1
        /\ stage[r] # "idle" =>
               ~InQueue(audio_processing_queue, r) /\ ~InQueue(rvc_queue, r)
        /\ outcome[r].asr # "" => ~InQueue(audio_processing_queue, r)
        /\ InQueue(audio_processing_queue, r) => outcome[r] = NoOutcome
        /\ InQueue(rvc_queue, r) => outcome[r].tts = "ok" /\ outcome[r].rvc = ""

\* one request waits on the bottleneck queue while another waits on the
\* admission queue
C21_Witness ==
    \E r1, r2 \in Reqs :
        /\ InQueue(rvc_queue, r1)
        /\ InQueue(audio_processing_queue, r2)

\* C22: neither queue ever holds more than its capacity; a synthesized
\* request whose put on the bottleneck queue has not returned keeps its
\* preprocessing permit and its pending (or cancelled) future; the only way
\* it leaves the put is onto the tail of the bottleneck queue, which had a
\* free slot; and under the fairness of the event loop it gets there.
InPut(r) == stage[r] = "put"

C22_WithinCapacity ==
    /\ Len(audio_processing_queue) <= MainQueueMaxSize
    /\ Len(rvc_queue) <= RvcQueueMaxSize
    /\ \A r \in Reqs :
           InPut(r) =>
               /\ prePc = "stage"
               /\ preprocessing_semaphore = max_concurrent_preprocessing - 1
               /\ ~Resolved(r)
               /\ outcome[r].tts = "ok"

C22_PutStep ==
    \A r \in Reqs :
        (InPut(r) /\ ~InPut(r)') =>
            /\ Len(rvc_queue) < RvcQueueMaxSize
            /\ rvc_queue' = Append(rvc_queue, r)
            /\ future'[r] = future[r]

C22_Backpressure ==
    /\ []C22_WithinCapacity
    /\ [][C22_PutStep]_vars
    /\ \A r \in Reqs : InPut(r) ~> InQueue(rvc_queue, r)

\* a synthesized request is suspended in the put, holding its permit,
\* because the bottleneck queue is full
C22_Witness ==
    \E r1, r2 \in Reqs :
        /\ InPut(r2)
        /\ rvc_queue = <<r1>> /\ Len(rvc_queue) = RvcQueueMaxSize
        /\ preprocessing_semaphore = max_concurrent_preprocessing - 1
        /\ future[r2].state = "pending"

\* C23: the ticket convert_new returns on acceptance carries the request's
\* id, a position equal to the length of the admission queue right after
\* the request's own enqueue (so between 1 and the capacity), and an
\* estimated wait of 12 seconds times that position.
Ticketed(r) == handler[r] = "queued"

C23_TicketRange ==
    \A r \in Reqs :
        Ticketed(r) =>
            /\ ConvertNewReply(r).request_id = RequestId("conv_", r)
            /\ ConvertNewReply(r).queue_info.position \in 1..MainQueueMaxSize
            /\ ConvertNewReply(r).queue_info.estimated_wait_seconds =
                   12 * ConvertNewReply(r).queue_info.position

C23_TicketStep ==
    \A r \in Reqs :
        (~Ticketed(r) /\ Ticketed(r)') =>
            /\ audio_processing_queue' = Append(audio_processing_queue, r)
            /\ ConvertNewReply(r)'.queue_info.position =
                   Len(audio_processing_queue')
            /\ ConvertNewReply(r)'.queue_info.position =
                   Len(audio_processing_queue) + 1

C23_Ticket == []C23_TicketRange /\ [][C23_TicketStep]_vars

\* a convert_new request holds a ticket for the last slot of the admission
\* queue and is still waiting in it
C23_Witness ==
    \E r \in Reqs :
        /\ Ticketed(r)
        /\ InQueue(audio_processing_queue, r)
        /\ ConvertNewReply(r).queue_info.position = MainQueueMaxSize
        /\ ConvertNewReply(r).queue_info.estimated_wait_seconds > 0

\* C24: for an id with no cache entry convert_status answers 'processing'
\* with the current admission queue length and 12 seconds times that
\* length, and the call changes nothing; apart from the echoed id the
\* answer depends on the queue length alone, so an id that was never
\* admitted gets the same answer as an admitted request still in flight.
NeverAdmitted(r) == ~Accepted(r)
InFlight(r) ==
    /\ ByConvertNew(r)
    /\ InQueue(audio_processing_queue, r) \/ InQueue(rvc_queue, r)
           \/ stage[r] # "idle"

StatusBody(r) ==
    [status |-> ConvertStatusResponse(r).status,
     queue_info |-> ConvertStatusResponse(r).queue_info]

ProcessingBody(n) ==
    [status |-> "processing",
     queue_info |-> [current_queue_size |-> n,
                     estimated_remaining_seconds |-> 12 * n]]

C24_ProcessingAnswer ==
    \A r \in Reqs :
        /\ ~Cached(r) =>
               /\ StatusBody(r) = ProcessingBody(Len(audio_processing_queue))
               /\ ConvertStatusResponse(r).request_id = RequestId(prefix[r], r)
        /\ NeverAdmitted(r) \/ InFlight(r) => ~Cached(r)
        /\ \A u \in Reqs :
               NeverAdmitted(u) /\ InFlight(r) => StatusBody(u) = StatusBody(r)

C24_PollStep ==
    \A r \in Reqs :
        (convert_status(r) /\ ~Cached(r)) => UNCHANGED vars

C24_UnknownLikeInFlight ==
    []C24_ProcessingAnswer /\ [][C24_PollStep]_vars

\* the server is running, one convert_new request waits in the admission
\* queue and one id was never admitted: both are told 'processing', 12 s
C24_Witness ==
    \E u, r \in Reqs :
        /\ Started /\ ~cleaned
        /\ NeverAdmitted(u) /\ InFlight(r)
        /\ audio_processing_queue = <<r>>
        /\ StatusBody(u) = ProcessingBody(1)
        /\ StatusBody(r) = ProcessingBody(1)

\* C25: the translation step of the pipeline translates toward the
\* configured source language when the detected language is the configured
\* target language (compared without regard to case), and toward the
\* configured target language otherwise.
C25_DirectionByComparison ==
    tr_sent.called =>
        Lower(tr_sent.args.target) =
            Lower(translate_text_by_detected(tr_call.source_lang))

\* C26: a request whose recognizer could not be initialized is failed at the
\* recognition step: it stays out of translation, synthesis and the
\* bottleneck queue, its future is resolved with an error (unless the
\* caller cancelled it), and the error text is not kept as its transcript.
AsrCollaboratorError(r) == outcome[r].asr = "uninit"

C26_AsrErrorFailsRequest ==
    \A r \in Reqs :
        AsrCollaboratorError(r) =>
            /\ stage[r] = "idle"
            /\ outcome[r].translate = "" /\ outcome[r].tts = ""
            /\ ~InQueue(rvc_queue, r)
            /\ Failed(r) \/ Cancelled(r)
            /\ request_data[r].original_text #
                   <<"Speech recognizer not initialized">>

\* C27: both queues are first-in first-out.  A queue changes only by an
\* append at its tail (the newly accepted request, or the request leaving
\* the put) or by the removal of its head, and the request that starts a
\* stage is the head just removed.  So requests start preprocessing in
\* the order of acceptance and start conversion in the order of their put:
\* both queues stay ordered by acceptance, a request is not taken off the
\* admission queue before one accepted earlier, and no request starts
\* conversion while one put before it is still waiting.
Sorted(q) == \A i, j \in 1..Len(q) : i < j => q[i] < q[j]
StartedConversion(r) == stage[r] \in {"convert"} \/ Converted(r)
Starts(r) == stage[r] = "idle" /\ stage'[r] # "idle"

TakesHead(q, qNext) ==
    /\ q # <<>>
    /\ qNext = Tail(q)
    /\ \A r \in Reqs : Starts(r) <=> r = Head(q)

C27_QueueStep ==
    /\ audio_processing_queue' # audio_processing_queue =>
           \/ /\ Submitted
              /\ audio_processing_queue' =
                     Append(audio_processing_queue, Newest)
           \/ /\ TakesHead(audio_processing_queue, audio_processing_queue')
              /\ stage'[Head(audio_processing_queue)] \in {"asr", "acquire"}
    /\ rvc_queue' # rvc_queue =>
           \/ \E r \in Reqs : InPut(r) /\ rvc_queue' = Append(rvc_queue, r)
           \/ /\ TakesHead(rvc_queue, rvc_queue')
              /\ stage'[Head(rvc_queue)] \in {"convert", "acquire"}
    /\ \A r \in Reqs :
           Starts(r) =>
               \/ audio_processing_queue # <<>> /\
                  r = Head(audio_processing_queue) /\
                  audio_processing_queue' = Tail(audio_processing_queue)
               \/ rvc_queue # <<>> /\
                  r = Head(rvc_queue) /\ rvc_queue' = Tail(rvc_queue)

C27_InOrder ==
    /\ Sorted(audio_processing_queue)
    /\ Sorted(rvc_queue)
    /\ \A a, b \in Reqs :
           (a < b /\ Accepted(a) /\ Accepted(b)) =>
               /\ b \in Dequeued => a \in Dequeued
               /\ InQueue(rvc_queue, a) => ~StartedConversion(b)

InPipeline(r) ==
    \/ InQueue(audio_processing_queue, r)
    \/ InQueue(rvc_queue, r)
    \/ stage[r] # "idle"

C28_CancelStep ==
    \A r \in Reqs :
        /\ (~Cancelled(r) /\ Cancelled(r)') =>
               /\ InPipeline(r) /\ InPipeline(r)'
               /\ UNCHANGED <<queueVars, stage, semVars, workerVars, outcome,
                              request_data, results_cache>>
        /\ Cancelled(r) => Cancelled(r)'
        /\ (Cancelled(r) /\ InPipeline(r) /\ ~InPipeline(r)') =>
               \/ /\ stage[r] \in {"asr", "tts"}
                  /\ preprocessing_semaphore' = preprocessing_semaphore + 1
                  /\ prePc = "stage" /\ prePc' = "sleep"
               \/ /\ stage[r] = "convert"
                  /\ processing_semaphore' = processing_semaphore + 1
                  /\ rvcPc = "stage" /\ rvcPc' = "sleep"

C28_CancelledInFlight ==
    \A r \in Reqs :
        Cancelled(r) =>
            /\ ByProcessAudio(r) /\ ~Cached(r)
            /\ r \in InPreprocessing =>
                   /\ prePc = "stage"
                   /\ preprocessing_semaphore = max_concurrent_preprocessing - 1
            /\ r \in InConversion =>
                   /\ rvcPc = "stage"
                   /\ processing_semaphore = max_concurrent_requests - 1
            /\ ~InPipeline(r) =>
                   /\ outcome[r].asr = "empty" \/ outcome[r].tts = "error"
                          \/ Converted(r)
                   /\ LoopRunning(prePc) /\ LoopRunning(rvcPc)

C28_NoCancellation ==
    /\ []C28_CancelledInFlight
    /\ [][C28_CancelStep]_vars
    /\ \A r \in Reqs : Cancelled(r) ~> ~InPipeline(r)
    /\ (prePc = "sleep") ~> (prePc = "get")
    /\ (rvcPc = "sleep") ~> (rvcPc = "get")

\* a request whose caller gave up was still converted, its delivery raised,
\* the permits are back, and the request after it was processed to the end
C28_Witness ==
    \E r, b \in Reqs :
        /\ r < b
        /\ Cancelled(r) /\ ~InPipeline(r) /\ outcome[r].rvc = "ok"
        /\ Completed(b)
        /\ processing_semaphore = max_concurrent_requests
        /\ preprocessing_semaphore = max_concurrent_preprocessing

\* C29: a result delivered to the future of a request, or kept in the
\* cache under an id, is that request's result: it has the request's id,
\* the audio the request was submitted with, the transcript recognized
\* from that audio, the translation of that transcript, the language
\* detected for it, and the audio synthesized (and converted) from that
\* translation.  A cache entry belongs to exactly one convert_new request,
\* there is one entry per id, and it equals what the future got.
Carries(r, res) ==
    /\ res.error = Empty
    /\ res.request_id = RequestId(prefix[r], r)
    /\ res.original_audio_blob = b64encode(AudioBlob(r))
    /\ res.original_text = request_data[r].original_text
    /\ outcome[r].asr = "text" => res.original_text = <<"asr">> \o AudioBlob(r)
    /\ res.translated_text = request_data[r].translated_text
    /\ outcome[r].translate = "ok" =>
           res.translated_text = <<"tr">> \o res.original_text
    /\ res.detected_language = request_data[r].detected_lang
    /\ res.translated_audio_blob \in
           {b64encode(<<"rvc", "tts">> \o res.translated_text),
            b64encode(<<"tts">> \o res.translated_text)}

C29_ResultsNotCrossed ==
    /\ \A r \in Reqs :
           /\ Completed(r) => Carries(r, future[r].result)
           /\ (Completed(r) /\ Cached(r)) => future[r].result \in results_cache
    /\ \A c \in results_cache :
           /\ \E r \in Reqs :
                  /\ ByConvertNew(r) /\ Carries(r, c)
                  /\ \A r2 \in Reqs \ {r} :
                         c.request_id # RequestId(prefix[r2], r2)
           /\ \A c2 \in results_cache : c2.request_id = c.request_id => c2 = c
    /\ \A r1, r2 \in Reqs :
           (r1 # r2 /\ Completed(r1) /\ Completed(r2)) =>
               /\ future[r1].result.request_id # future[r2].result.request_id
               /\ future[r1].result.original_audio_blob
                      # future[r2].result.original_audio_blob

\* a process_audio request and a convert_new request were in the pipeline
\* together and both completed, each with its own transcript
C29_Witness ==
    \E a, b \in Reqs :
        /\ ByProcessAudio(a) /\ ByConvertNew(b)
        /\ Completed(a) /\ Completed(b) /\ Cached(b)
        /\ outcome[a].asr = "text" /\ outcome[b].asr = "text"
        /\ future[a].result.original_text # future[b].result.original_text

\* C30: the collaborators of a request are called in the order ASR,
\* translation, synthesis, conversion, each only after the one before it
\* succeeded for that request: translation only after a recognized
\* transcript, synthesis only after a successful translation, conversion
\* only after a successful synthesis.
C30_EachAfterSuccess ==
    \A r \in Reqs :
        /\ outcome[r].translate # "" => outcome[r].asr = "text"
        /\ outcome[r].tts # "" => outcome[r].translate = "ok"
        /\ outcome[r].rvc # "" => outcome[r].tts = "ok"
        /\ stage[r] = "translate" => outcome[r].asr = "text"
        /\ stage[r] = "tts" => outcome[r].translate = "ok"
        /\ (InQueue(rvc_queue, r) \/ stage[r] \in {"put", "convert"}) =>
               outcome[r].tts = "ok"

\* The order itself holds: a collaborator is called only after the ones
\* before it were called and returned something to go on with, and
\* conversion only for a request taken off the bottleneck queue.
C30_StagesInOrder ==
    \A r \in Reqs :
        /\ outcome[r].translate # "" => outcome[r].asr \in {"text", "uninit"}
        /\ outcome[r].tts # "" => outcome[r].translate # ""
        /\ outcome[r].rvc # "" => outcome[r].tts = "ok"
        /\ (InQueue(rvc_queue, r) \/ stage[r] \in {"put", "convert"}) =>
               outcome[r].tts = "ok" /\ outcome[r].rvc = ""

\* C31: a cached result leaves the cache only by a convert_status call for
\* its own id, which removes that entry and nothing else; every other step
\* keeps each entry as it is.  So the result of a completed convert_new
\* request is in the cache as long as it has not been retrieved.
OwnerOf(c, r) == c.request_id = RequestId(prefix[r], r)

C31_CacheStep ==
    \A c \in results_cache :
        c \notin results_cache' =>
            \E r \in Reqs :
                /\ OwnerOf(c, r)
                /\ retrievals' = [retrievals EXCEPT ![r] = @ + 1]
                /\ results_cache' = results_cache \ {c}
                /\ UNCHANGED <<queueVars, semVars, workerVars, handlerVars,
                               reqVars>>

C31_KeptUntilRetrieved ==
    \A r \in Reqs :
        /\ (ByConvertNew(r) /\ Converted(r) /\ retrievals[r] = 0) =>
               /\ Cached(r)
               /\ \A c \in results_cache : OwnerOf(c, r) => Carries(r, c)
        /\ retrievals[r] <= 1
        /\ retrievals[r] = 1 => ~Cached(r)

C31_NoEviction == []C31_KeptUntilRetrieved /\ [][C31_CacheStep]_vars

\* two results were cached, one was retrieved, the other is still there
C31_Witness ==
    \E a, b \in Reqs :
        /\ a # b
        /\ retrievals[a] = 1 /\ ~Cached(a)
        /\ retrievals[b] = 0 /\ Cached(b) /\ Converted(b)

\* C32: the accepted requests whose future is still pending are all in one
\* of the two queues or held by one of the two workers, each worker holds
\* at most one request, and each queue at most its capacity: so there are
\* never more of them than the two capacities plus two.  A submission that
\* arrives when that many are pending is rejected, and so is every
\* submission that finds the admission queue full.
Outstanding == {r \in Reqs : future[r].state = "pending"}
HeldBy(w) ==
    IF w = "pre" THEN {r \in Reqs : stage[r] \in {"asr", "translate", "tts", "put"}}
    ELSE {r \in Reqs : stage[r] = "convert"}
MaxOutstanding == MainQueueMaxSize + RvcQueueMaxSize + 1 + 1

C32_Bounded ==
    /\ \A r \in Outstanding :
           \/ InQueue(audio_processing_queue, r)
           \/ InQueue(rvc_queue, r)
           \/ r \in HeldBy("pre") \/ r \in HeldBy("rvc")
    /\ Cardinality(HeldBy("pre")) <= 1
    /\ Cardinality(HeldBy("rvc")) <= 1
    /\ Len(audio_processing_queue) <= MainQueueMaxSize
    /\ Len(rvc_queue) <= RvcQueueMaxSize
    /\ Cardinality(Outstanding) <= MaxOutstanding

C32_RejectedAtBound ==
    Submitted =>
        /\ (Cardinality(Outstanding) = MaxOutstanding \/
            Len(audio_processing_queue) = MainQueueMaxSize) =>
               /\ future'[Newest].state = "none"
               /\ Outstanding' = Outstanding
        /\ Cardinality(Outstanding') <= Cardinality(Outstanding) + 1

Ended(r) ==
    \/ Resolved(r)
    \/ outcome[r].asr = "empty" \/ outcome[r].tts = "error" \/ Converted(r)

WrittenOnce(r) ==
    /\ outcome[r].asr # "" => outcome'[r].asr = outcome[r].asr
    /\ outcome[r].translate # "" => outcome'[r].translate = outcome[r].translate
    /\ outcome[r].tts # "" => outcome'[r].tts = outcome[r].tts
    /\ outcome[r].rvc # "" => outcome'[r].rvc = outcome[r].rvc

C33_HandledOnceStep ==
    \A r \in Reqs :
        /\ WrittenOnce(r)
        /\ (Starts(r) /\ stage'[r] = "asr") => outcome[r] = NoOutcome
        /\ (Starts(r) /\ stage'[r] = "convert") =>
               outcome[r].rvc = "" /\ outcome[r].tts = "ok"
        /\ (~InQueue(audio_processing_queue, r) /\
            InQueue(audio_processing_queue, r)') => ~Accepted(r)
        /\ (~InQueue(rvc_queue, r) /\ InQueue(rvc_queue, r)') =>
               InPut(r) /\ outcome[r].rvc = ""
        /\ (Ended(r) /\ ~InPipeline(r)) => ~InPipeline(r)'

C33_HandledOnceState ==
    \A r \in Reqs :
        /\ stage[r] = "asr" => outcome[r] = NoOutcome
        /\ stage[r] = "translate" => outcome[r].translate = ""
        /\ stage[r] = "tts" => outcome[r].tts = ""
        /\ stage[r] = "convert" => outcome[r].rvc = ""
        /\ Ended(r) => ~InPipeline(r)
        /\ InQueue(audio_processing_queue, r) => outcome[r] = NoOutcome
        /\ Occurrences(audio_processing_queue, r) <= 1
        /\ Occurrences(rvc_queue, r) <= 1
        /\ (Accepted(r) /\ ~InPipeline(r)) => Ended(r)

C33_HandledOnce == []C33_HandledOnceState /\ [][C33_HandledOnceStep]_vars

\* every accepted request has been handled and the pipeline is empty: one
\* failed in synthesis, one was converted, and both workers wait in get()
C33_Witness ==
    /\ \A r \in Reqs : Accepted(r) /\ ~InPipeline(r)
    /\ \E a, b \in Reqs :
           /\ outcome[a].tts = "error" /\ Failed(a)
           /\ Converted(b) /\ Completed(b)
    /\ prePc = "get" /\ rvcPc = "get"

\* C35: a submission without an audio payload is answered 400, whether the
\* admission queue is full or not; it gets no id and no future, it is not
\* enqueued, and the step changes nothing but the count of invocations and
\* the handler's answer.  A request answered 400 never shows up in a queue,
\* a stage or the cache.
WithoutAudio == process_audio(FALSE) \/ convert_new(FALSE)

C35_NoAudioStep ==
    WithoutAudio =>
        /\ handler'[Newest] = "rejected400"
        /\ UNCHANGED <<queueVars, semVars, workerVars, engineVars, prefix,
                       position, reqVars, results_cache, lifeVars, histVars>>

C35_RejectedNoAudio ==
    \A r \in Reqs :
        handler[r] = "rejected400" =>
            /\ ProcessAudioStatus(r) = 400
            /\ ~Accepted(r) /\ prefix[r] = ""
            /\ request_data[r] = NoData
            /\ ~InPipeline(r) /\ outcome[r] = NoOutcome
            /\ ~Cached(r)

C35_ValidationFirst == []C35_RejectedNoAudio /\ [][C35_NoAudioStep]_vars

\* a submission without audio was answered 400 while the admission queue
\* was full: the request accepted before it has been waiting there since
C35_Witness ==
    \E a, b \in Reqs :
        /\ a < b
        /\ handler[b] = "rejected400"
        /\ audio_processing_queue = <<a>>
        /\ Len(audio_processing_queue) = MainQueueMaxSize

\* C36: a call of synthesize_to_mp3_url ends, after at most 20 status
\* polls; when it returns a URL, the poll it has just made reported 'done'
\* with a location and was the first to do so; every other end is a raised
\* RuntimeError.
TtsEnded == tts.pc \in {"returned", "raised"}

C36_EndsWithUrlOrRuntimeError ==
    /\ tts.polls <= 20
    /\ tts.pc = "returned" =>
           tts.result = "url" /\ tts.first_done = tts.polls /\ tts.polls > 0
    /\ tts.pc = "raised" => tts.result = "RuntimeError"

\* C36 as amended: the same, for a text that is not blank; a blank text
\* raises ValueError before any request is made.
C36_Bounded ==
    /\ tts.polls <= 20 /\ tts.polls = tts.attempt
    /\ tts.pc = "returned" =>
           tts.result = "url" /\ tts.first_done = tts.polls /\ tts.polls > 0
    /\ tts.first_done # 0 => tts.pc = "returned"
    /\ tts.pc = "raised" =>
           /\ tts.first_done = 0
           /\ IF IsBlank(tts.text)
              THEN tts.result = "ValueError" /\ tts.polls = 0
              ELSE tts.result = "RuntimeError"
    /\ (tts.pc = "raised" /\ tts.polls > 0) => tts.polls = 20
    /\ TtsEnded <=> tts.result # "none"

C36_Terminates == []C36_Bounded /\ <>[]TtsEnded

\* the call made all its polls without a 'done' and gave up
C36_Witness ==
    /\ tts.pc = "raised" /\ tts.result = "RuntimeError"
    /\ tts.polls = 20 /\ tts.first_done = 0 /\ tts.first_error = 0

\* C37: once a poll has reported 'error', or 'done' without a location,
\* the call has raised RuntimeError and that poll was its last.
C37_RaisesAtErrorPoll ==
    tts.first_error # 0 =>
        /\ tts.pc = "raised" /\ tts.result = "RuntimeError"
        /\ tts.polls = tts.first_error

\* C38: while process_folder runs, at most max_concurrent files are inside
\* process_single_file and at most one has a voice-conversion request in
\* flight; the free permits of the two semaphores are exactly those not
\* held by such a file, whether files succeeded or failed; when the call
\* has returned every file was attempted and finished, and successful +
\* failed = total = the number of files.
Attempted(f) == file_pc[f] # "wait"

BatchRunning == batch.pc \in {"gather", "returned"} /\ batch.files > 0

C38_Permits ==
    BatchRunning =>
        /\ Cardinality({f \in Files : Inside(f)}) <= batch.max_concurrent
        /\ semaphore = batch.max_concurrent - Cardinality({f \in Files : Inside(f)})
        /\ Cardinality({f \in Files : InRvc(f)}) <= 1
        /\ rvc_semaphore = 1 - Cardinality({f \in Files : InRvc(f)})

C38_Counts ==
    batch.pc = "returned" =>
        /\ batch.total = batch.files
        /\ batch.successful + batch.failed = batch.total
        /\ batch.files > 0 =>
               /\ \A f \in Files : Attempted(f) /\ Finished(f)
               /\ batch.successful = Cardinality({f \in Files : file_pc[f] = "True"})

\* C38 as stated: the call returns, with every file attempted, whatever
\* max_concurrent is.
C38_EveryFileAttempted ==
    [](C38_Permits /\ C38_Counts) /\ <>(batch.pc = "returned")

\* C38 as amended: the call returns when max_concurrent is at least 1.
C38_BatchCompletes ==
    /\ [](C38_Permits /\ C38_Counts)
    /\ <>(batch.max_concurrent < 1 \/ batch.pc = "returned")
    /\ [](batch.pc = "returned" => [](batch.pc = "returned"))

\* the call has returned after a file failed in voice conversion while
\* the others, which had to wait for permits, succeeded
C38_Witness ==
    /\ batch.pc = "returned"
    /\ batch.files = MaxFiles
    /\ batch.max_concurrent >= 1 /\ batch.max_concurrent < batch.files
    /\ batch.failed = 1 /\ batch.successful = MaxFiles - 1
    /\ semaphore = batch.max_concurrent /\ rvc_semaphore = 1

====
